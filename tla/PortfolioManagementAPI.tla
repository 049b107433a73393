----------------------- MODULE PortfolioManagementAPI -----------------------
(***************************************************************************)
(* PortfolioManagementAPI: HTTP requests that plan and finish trading jobs *)
(* on the planning of a date, run concurrently against the event store     *)
(* (SQL Server, READ COMMITTED, no explicit locks) and publish the events  *)
(* they committed.  One action per await of the code; between two awaits a *)
(* request touches only its own memory.                                    *)
(***************************************************************************)
EXTENDS PortfolioPlanning

CONSTANTS
    Dates,          \* planning dates; a date is the id of its aggregate
    Commands,       \* the commands clients may send
    NoRequest       \* the holder of a lock nobody holds

ASSUME CommandsAssumption == Commands \subseteq Command
ASSUME NoRequestAssumption == NoRequest \notin Requests

VARIABLES
    planning,       \* table PortfolioPlanning: CurrentVersion by Id
    planningEvent,  \* table PortfolioPlanningEvent: by Id, then by Version
    lock,           \* by Id, whose open transaction wrote the planning row
    pc,             \* by request, the await it is at
    date,           \* by request, the planningDate of its route
    command,        \* by request, its body
    loaded,         \* by request, the events its aggregate replayed
    pending,        \* by request, the events still to be stored or published
    answer,         \* by request, what its caller was told
    exchange        \* the messages handed to the broker, oldest first

tables == <<planning, planningEvent>>
inputs == <<date, command>>
vars   == <<planning, planningEvent, lock, pc, date, command, loaded, pending,
            answer, exchange>>

Locations == {"load", "replay", "handle", "save", "update", "insert", "store",
              "publish", "done"}
\* Failed: an exception nobody handles (status 500), or a crash and no answer.
\* Concurrency: status 500 too, with the advice to try again.
Answers == {"none", "Created", "Ok", "NotFound", "Conflict", "Concurrency",
            "Failed"}

\* AggregateRoot counts the events it replays.
OriginalVersion(r) == Cardinality(DOMAIN loaded[r])

\* A slip the properties must notice: RaiseEvent that leaves Version alone.
NewVersionUncounted(r) == OriginalVersion(r)

NewVersion(r) == OriginalVersion(r) + Len(pending[r])

Unlocked(d) == lock[d] = NoRequest

Goto(r, location) == pc' = [pc EXCEPT ![r] = location]

Answer(r, what) ==
    /\ answer' = [answer EXCEPT ![r] = what]
    /\ Goto(r, "done")

\* Any request may carry any command for any date.
Init ==
    /\ planning = << >>
    /\ planningEvent = [d \in Dates |-> << >>]
    /\ lock = [d \in Dates |-> NoRequest]
    /\ pc = [r \in Requests |-> "load"]
    /\ date \in [Requests -> Dates]
    /\ command \in [Requests -> Commands]
    /\ loaded = [r \in Requests |-> << >>]
    /\ pending = [r \in Requests |-> << >>]
    /\ answer = [r \in Requests |-> "none"]
    /\ exchange = << >>

-----------------------------------------------------------------------------
(* GetByIdAsync: two reads, each on its own, not one snapshot.             *)

\* The row is found.  A row written by an open transaction makes a reader
\* wait for the transaction's end.
LoadPlanning(r) ==
    /\ pc[r] = "load"
    /\ Unlocked(date[r])
    /\ date[r] \in DOMAIN planning
    /\ Goto(r, "replay")
    /\ UNCHANGED <<tables, lock, inputs, loaded, pending, answer, exchange>>

\* No row: PlanTrading goes on with a planning of its own, FinishTrading
\* returns null and the controller answers 404.
MissPlanning(r) ==
    /\ pc[r] = "load"
    /\ Unlocked(date[r])
    /\ date[r] \notin DOMAIN planning
    /\ IF command[r].type = "PlanTrading"
       THEN Goto(r, "handle") /\ UNCHANGED answer
       ELSE Answer(r, "NotFound")
    /\ UNCHANGED <<tables, lock, inputs, loaded, pending, exchange>>

\* The events, which may be newer than the row that was read before.
LoadEvents(r) ==
    /\ pc[r] = "replay"
    /\ loaded' = [loaded EXCEPT ![r] = planningEvent[date[r]]]
    /\ Goto(r, "handle")
    /\ UNCHANGED <<tables, lock, inputs, pending, answer, exchange>>

-----------------------------------------------------------------------------
(* The command handler, in memory.                                         *)

HandleCommand(r) ==
    /\ pc[r] = "handle"
    /\ MayHandle(loaded[r], command[r])
    /\ pending' = [pending EXCEPT ![r] = NewEvents(loaded[r], command[r], r)]
    /\ Goto(r, "save")
    /\ UNCHANGED <<tables, lock, inputs, loaded, answer, exchange>>

\* PlanTradingAsync maps a violated business rule to 409; InvalidValue, and
\* everything FinishTrading throws, escapes both controllers.
RejectCommand(r) ==
    /\ pc[r] = "handle"
    /\ ~MayHandle(loaded[r], command[r])
    /\ Answer(r, IF command[r].type = "PlanTrading" /\ IsValid(command[r].slot)
                 THEN "Conflict" ELSE "Failed")
    /\ UNCHANGED <<tables, lock, inputs, loaded, pending, exchange>>

-----------------------------------------------------------------------------
(* SaveAsync: one transaction.                                             *)

SelectPlanning(r) ==
    /\ pc[r] = "save"
    /\ Unlocked(date[r])
    /\ Goto(r, IF date[r] \in DOMAIN planning THEN "update" ELSE "insert")
    /\ UNCHANGED <<tables, lock, inputs, loaded, pending, answer, exchange>>

\* Slips the properties must notice: the version overwritten unread ...
UpdateLastWriterWins(r) ==
    /\ pc[r] = "update"
    /\ Unlocked(date[r])
    /\ loaded' = [loaded EXCEPT ![r] = planningEvent[date[r]]]
    /\ lock' = [lock EXCEPT ![date[r]] = r]
    /\ Goto(r, "store")
    /\ UNCHANGED <<tables, inputs, pending, answer, exchange>>

\* ... and ConcurrencyException thrown with the transaction left open.
UpdateLeavesLock(r) ==
    /\ pc[r] = "update"
    /\ Unlocked(date[r])
    /\ planning[date[r]] # OriginalVersion(r)
    /\ lock' = [lock EXCEPT ![date[r]] = r]
    /\ Answer(r, "Concurrency")
    /\ UNCHANGED <<tables, inputs, loaded, pending, exchange>>

\* The UPDATE matches: the row is locked until the transaction ends.
UpdatePlanning(r) ==
    /\ pc[r] = "update"
    /\ Unlocked(date[r])
    /\ planning[date[r]] = OriginalVersion(r)
    /\ lock' = [lock EXCEPT ![date[r]] = r]
    /\ Goto(r, "store")
    /\ UNCHANGED <<tables, inputs, loaded, pending, answer, exchange>>

\* The UPDATE matches no row: roll back and throw ConcurrencyException.
UpdateNothing(r) ==
    /\ pc[r] = "update"
    /\ Unlocked(date[r])
    /\ planning[date[r]] # OriginalVersion(r)
    /\ Answer(r, "Concurrency")
    /\ UNCHANGED <<tables, lock, inputs, loaded, pending, exchange>>

InsertPlanning(r) ==
    /\ pc[r] = "insert"
    /\ Unlocked(date[r])
    /\ date[r] \notin DOMAIN planning
    /\ lock' = [lock EXCEPT ![date[r]] = r]
    /\ Goto(r, "store")
    /\ UNCHANGED <<tables, inputs, loaded, pending, answer, exchange>>

\* The primary key of PortfolioPlanning refuses the row: a SqlException that
\* is not a ConcurrencyException.
InsertDuplicate(r) ==
    /\ pc[r] = "insert"
    /\ Unlocked(date[r])
    /\ date[r] \in DOMAIN planning
    /\ Answer(r, "Failed")
    /\ UNCHANGED <<tables, lock, inputs, loaded, pending, exchange>>

\* The versions SaveAsync gives the events of a batch, and their insertion.
Versions(original, batch) == original + 1 .. original + Len(batch)

InsertEvents(stored, original, batch) ==
    [v \in DOMAIN stored \cup Versions(original, batch) |->
        IF v \in Versions(original, batch) THEN batch[v - original]
                                           ELSE stored[v]]

\* Slips the properties must notice: the row left at the version it had ...
StoreOldVersion(r) ==
    LET d == date[r] IN
    /\ pc[r] = "store"
    /\ planning' = [x \in DOMAIN planning \cup {d} |->
                        IF x = d THEN OriginalVersion(r) + 1 ELSE planning[x]]
    /\ planningEvent' =
         [planningEvent EXCEPT ![d] =
            InsertEvents(@, OriginalVersion(r), pending[r])]
    /\ lock' = [lock EXCEPT ![d] = NoRequest]
    /\ Goto(r, "publish")
    /\ UNCHANGED <<inputs, loaded, pending, answer, exchange>>

\* ... the transaction never committed ...
StoreUncommitted(r) ==
    /\ pc[r] = "store"
    /\ lock' = [lock EXCEPT ![date[r]] = NoRequest]
    /\ Goto(r, "publish")
    /\ UNCHANGED <<tables, inputs, loaded, pending, answer, exchange>>

\* The row's new version and the events take effect together, at the commit.
\* Were a version taken, the primary key (Id, Version) would refuse the event
\* and the request would Fail.
StoreEvents(r) ==
    LET d == date[r] IN
    /\ pc[r] = "store"
    /\ Versions(OriginalVersion(r), pending[r]) \cap DOMAIN planningEvent[d] = {}
    /\ planning' = [x \in DOMAIN planning \cup {d} |->
                        IF x = d THEN NewVersion(r) ELSE planning[x]]
    /\ planningEvent' =
         [planningEvent EXCEPT ![d] =
            InsertEvents(@, OriginalVersion(r), pending[r])]
    /\ lock' = [lock EXCEPT ![d] = NoRequest]
    /\ Goto(r, "publish")
    /\ UNCHANGED <<inputs, loaded, pending, answer, exchange>>

-----------------------------------------------------------------------------
(* Publishing, one event at a time, after the transaction.                 *)

\* Slips the properties must notice: a publication repeated ...
PublishAndRetry(r) ==
    /\ pc[r] = "publish"
    /\ pending[r] # << >>
    /\ exchange' = Append(exchange, Head(pending[r]))
    /\ pending' \in {pending, [pending EXCEPT ![r] = Tail(@)]}
    /\ UNCHANGED <<tables, lock, inputs, pc, loaded, answer>>

\* ... and the caller answered while the publication is not awaited.
RespondEarly(r) ==
    /\ pc[r] = "publish"
    /\ Answer(r, IF command[r].type = "PlanTrading" THEN "Created" ELSE "Ok")
    /\ UNCHANGED <<tables, lock, inputs, loaded, pending, exchange>>

PublishEvent(r) ==
    /\ pc[r] = "publish"
    /\ pending[r] # << >>
    /\ exchange' = Append(exchange, Head(pending[r]))
    /\ pending' = [pending EXCEPT ![r] = Tail(@)]
    /\ UNCHANGED <<tables, lock, inputs, pc, loaded, answer>>

Respond(r) ==
    /\ pc[r] = "publish"
    /\ pending[r] = << >>
    /\ Answer(r, IF command[r].type = "PlanTrading" THEN "Created" ELSE "Ok")
    /\ UNCHANGED <<tables, lock, inputs, loaded, pending, exchange>>

\* A slip the properties must notice: any exception reported like a conflict.
FailAsConcurrency(r) ==
    /\ pc[r] # "done"
    /\ Answer(r, "Concurrency")
    /\ lock' = [d \in Dates |-> IF lock[d] = r THEN NoRequest ELSE lock[d]]
    /\ UNCHANGED <<tables, inputs, loaded, pending, exchange>>

\* The database, the broker or the process fails under the request, whose
\* open transaction is rolled back.  The crash of the process is this step
\* for each of its requests.
Fail(r) ==
    /\ pc[r] # "done"
    /\ Answer(r, "Failed")
    /\ lock' = [d \in Dates |-> IF lock[d] = r THEN NoRequest ELSE lock[d]]
    /\ UNCHANGED <<tables, inputs, loaded, pending, exchange>>

-----------------------------------------------------------------------------

Step(r) ==
    \/ LoadPlanning(r) \/ MissPlanning(r) \/ LoadEvents(r)
    \/ HandleCommand(r) \/ RejectCommand(r)
    \/ SelectPlanning(r)
    \/ UpdatePlanning(r) \/ UpdateNothing(r)
    \/ InsertPlanning(r) \/ InsertDuplicate(r)
    \/ StoreEvents(r)
    \/ PublishEvent(r) \/ Respond(r)

AllDone == \A r \in Requests : pc[r] = "done"

\* Every request has been answered: the one state in which nothing happens.
Finished == AllDone /\ UNCHANGED vars

Next == (\E r \in Requests : Step(r) \/ Fail(r)) \/ Finished

Spec == Init /\ [][Next]_vars

\* The thread pool runs every request; nothing obliges it to fail.
Fairness == \A r \in Requests : WF_vars(Step(r))

FairSpec == Spec /\ Fairness

-----------------------------------------------------------------------------
(* Properties.                                                             *)

\* Every variable holds what its table, its request or the broker can hold.
TypeOK ==
    /\ DOMAIN planning \subseteq Dates
    /\ \A d \in DOMAIN planning : planning[d] \in Nat \ {0}
    /\ DOMAIN planningEvent = Dates
    /\ \A d \in Dates : planningEvent[d] \in Seq(Event)
    /\ lock \in [Dates -> Requests \cup {NoRequest}]
    /\ pc \in [Requests -> Locations]
    /\ date \in [Requests -> Dates]
    /\ command \in [Requests -> Commands]
    /\ loaded \in [Requests -> Seq(Event)]
    /\ pending \in [Requests -> Seq(Event)]
    /\ answer \in [Requests -> Answers]
    /\ exchange \in Seq(Event)

\* CurrentVersion is the number of stored events of its planning, the events
\* have the versions 1 .. CurrentVersion, and there are none without a row:
\* GetByIdAsync counts events where SaveAsync compares CurrentVersion.
VersionCountsEvents ==
    \A d \in Dates :
        DOMAIN planningEvent[d] = IF d \in DOMAIN planning
                                  THEN 1 .. planning[d] ELSE {}

\* e is an event that the aggregate could raise on the events `before`.
Admissible(e, before) ==
    CASE e.type = "PortfolioPlanningCreated" -> DOMAIN before = {}
      [] e.type = "TradingPlanned" -> DOMAIN before # {} /\ MayPlan(before, e)
      [] e.type = "TradingFinished" -> MayFinish(before, e)

Before(events, v) == [w \in {w \in DOMAIN events : w < v} |-> events[w]]

\* Every stored event obeyed the business rules on all the events stored
\* before it, not only on those its request had loaded: no interleaving lets
\* two requests plan against the same free workstation.
EventsAdmissible ==
    \A d \in Dates : \A v \in DOMAIN planningEvent[d] :
        Admissible(planningEvent[d][v], Before(planningEvent[d], v))

\* Two jobs of one date on one stock meet in time only when the job planned
\* first encloses the other: that case alone escapes OverlapsWith.
StockOverlapIsEnclosure ==
    \A d \in Dates : \A v, w \in Jobs(planningEvent[d]) :
        LET a == planningEvent[d][v]
            b == planningEvent[d][w]
        IN v < w /\ a.ticker = b.ticker /\ Intersects(a.slot, b.slot)
           => Encloses(a.slot, b.slot)

\* r left an event in the store.
Stored(r) ==
    \E d \in Dates : \E v \in DOMAIN planningEvent[d] :
        planningEvent[d][v].origin = r

\* A caller told 404, 409 or to try again can do so: nothing was stored.  Only
\* an unexplained failure leaves the caller in doubt.
RefusedLeavesNoTrace ==
    \A r \in Requests :
        answer[r] \in {"NotFound", "Conflict", "Concurrency"} => ~Stored(r)

\* No service hears of an event that the store does not hold.
PublishedIsStored ==
    \A i \in DOMAIN exchange :
        \E d \in Dates : \E v \in DOMAIN planningEvent[d] :
            planningEvent[d][v] = exchange[i]

\* A stored event that was not published is on its way, or its request was
\* interrupted after the commit.  There is no outbox: such an event is lost.
UnpublishedWasInterrupted ==
    \A d \in Dates : \A v \in DOMAIN planningEvent[d] :
        LET e == planningEvent[d][v]
        IN \/ \E i \in DOMAIN exchange : exchange[i] = e
           \/ pc[e.origin] = "publish"
           \/ answer[e.origin] = "Failed"

\* No event is published twice, and a planning's creation precedes the job
\* that was planned with it.
PublishedOnceInOrder ==
    \A i, j \in DOMAIN exchange :
        i < j /\ exchange[i].origin = exchange[j].origin
        => /\ exchange[i].type = "PortfolioPlanningCreated"
           /\ exchange[j].type = "TradingPlanned"

\* The optimistic concurrency control implements the ledger: whatever the
\* interleaving and the failures, requests change a planning one at a time.
Ledger == INSTANCE PlanningLedger WITH ledger <- planningEvent
ImplementsLedger == Ledger!Spec

\* A request never waits for ever: no transaction keeps a row from the others.
EveryRequestAnswered == \A r \in Requests : <>(pc[r] = "done")

-----------------------------------------------------------------------------
(* What the documentation says, and the code does not do.                  *)

\* "Only 1 trading job can be executed on a stock during a certain time-slot."
StockSlotsDisjoint ==
    \A d \in Dates : \A v, w \in Jobs(planningEvent[d]) :
        LET a == planningEvent[d][v]
            b == planningEvent[d][w]
        IN v # w /\ a.ticker = b.ticker => ~Intersects(a.slot, b.slot)

\* "... manages all commands and generates events, which are subsequently
\* published using the message broker."
StoredIsPublished ==
    \A r \in Requests :
        Stored(r) ~> \E i \in DOMAIN exchange : exchange[i].origin = r

=============================================================================
