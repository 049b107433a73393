------------------------- MODULE PortfolioPlanning -------------------------
(***************************************************************************)
(* The event-sourced aggregate PortfolioPlanning: the trading jobs of one  *)
(* date.  Its state is a function of the events raised on it, so the       *)
(* aggregate is written as operators on `events`, the events of one date   *)
(* by version (a sequence, once the store is shown to leave no gap).       *)
(***************************************************************************)
EXTENDS Timeslot, Sequences, FiniteSets

CONSTANTS
    AvailableWorkstations,  \* AVAILABLE_WORKSTATIONS, 3 in the code
    JobIds,                 \* the Guids a client gives its jobs
    Tickers,
    Requests                \* the HTTP requests served, one command each

ASSUME WorkstationsAssumption == AvailableWorkstations \in Nat \ {0}

(***************************************************************************)
(* Every event has a fresh Guid as its MessageId.  `origin`, the request   *)
(* that raised the event, stands for it: a request raises at most one      *)
(* event of a type.                                                        *)
(***************************************************************************)
PlanningCreated == [type : {"PortfolioPlanningCreated"}, origin : Requests]
TradingPlanned  == [type : {"TradingPlanned"}, origin : Requests,
                    jobId : JobIds, ticker : Tickers, slot : Timeslots]
TradingFinished == [type : {"TradingFinished"}, origin : Requests,
                    jobId : JobIds, slot : Timeslots]
Event == PlanningCreated \cup TradingPlanned \cup TradingFinished

PlanTradingCommand   == [type : {"PlanTrading"},
                         jobId : JobIds, ticker : Tickers, slot : TimePair]
FinishTradingCommand == [type : {"FinishTrading"},
                         jobId : JobIds, slot : TimePair]
Command == PlanTradingCommand \cup FinishTradingCommand

-----------------------------------------------------------------------------
(* Replaying events.  A job is known by the version that planned it: job   *)
(* ids are the client's, and nothing in the code keeps them unique.        *)

\* The list Jobs, as the versions of the events that added to it.
Jobs(events) == {v \in DOMAIN events : events[v].type = "TradingPlanned"}

JobsOn(events, ticker) == {v \in Jobs(events) : events[v].ticker = ticker}

HasJob(events, jobId) == \E v \in Jobs(events) : events[v].jobId = jobId

\* Status of the job FirstOrDefault finds: a finish has been applied to it.
IsCompleted(events, jobId) ==
    \E v \in DOMAIN events :
        events[v].type = "TradingFinished" /\ events[v].jobId = jobId

-----------------------------------------------------------------------------
(* The business rules.                                                     *)

\* NumberOfParallelTradingsMustNotExceedAvailableWorkStations.  Completed
\* jobs count: the rule looks at Jobs, not at Status.
ParallelJobs(events, slot) ==
    {v \in Jobs(events) : OverlapsWith(events[v].slot, slot)}

WorkstationLeft(events, slot) ==
    Cardinality(ParallelJobs(events, slot)) < AvailableWorkstations

\* NumberOfParallelTradingsOnAStockMustNotExceedOne.
StockIsFree(events, ticker, slot) ==
    \A v \in JobsOn(events, ticker) : ~OverlapsWith(events[v].slot, slot)

\* PlanTrading raises TradingPlanned rather than throwing.
MayPlan(events, command) ==
    /\ IsValid(command.slot)
    /\ IsWithinOneDay(command.slot)
    /\ WorkstationLeft(events, command.slot)
    /\ StockIsFree(events, command.ticker, command.slot)

\* A slip the properties must notice: FinishedTradingCanNotBeFinished skipped.
MayFinishAgain(events, command) ==
    /\ HasJob(events, command.jobId)
    /\ IsValid(command.slot)

\* FinishTrading raises TradingFinished rather than throwing; the actual
\* time-slot is validated when the event is applied, before it is recorded.
MayFinish(events, command) ==
    /\ HasJob(events, command.jobId)
    /\ ~IsCompleted(events, command.jobId)
    /\ IsValid(command.slot)

MayHandle(events, command) ==
    IF command.type = "PlanTrading"
    THEN MayPlan(events, command)
    ELSE MayFinish(events, command)

-----------------------------------------------------------------------------
(* The events a request raises on the aggregate loaded from `events`.      *)

Created(r) == [type |-> "PortfolioPlanningCreated", origin |-> r]

Raised(command, r) ==
    IF command.type = "PlanTrading"
    THEN [type |-> "TradingPlanned", origin |-> r, jobId |-> command.jobId,
          ticker |-> command.ticker, slot |-> command.slot]
    ELSE [type |-> "TradingFinished", origin |-> r, jobId |-> command.jobId,
          slot |-> command.slot]

\* GetEvents after the command: PlanTrading creates a missing planning first.
NewEvents(events, command, r) ==
    IF DOMAIN events = {}
    THEN <<Created(r), Raised(command, r)>>
    ELSE <<Raised(command, r)>>

=============================================================================
