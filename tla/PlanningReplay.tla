--------------------------- MODULE PlanningReplay ---------------------------
(***************************************************************************)
(* The aggregate as the code computes it: a list of Trading entities built *)
(* by replaying events one by one, and the rules evaluated over that list. *)
(* The operators of PortfolioPlanning, which read the events as a set, are *)
(* checked and proved against these.                                       *)
(***************************************************************************)
EXTENDS PortfolioManagementAPI

CONSTANT NoSlot  \* the null ActualTimeslot of a job that is not completed

ASSUME NoSlotAssumption == NoSlot \notin Timeslots

Planned(e) == [id |-> e.jobId, ticker |-> e.ticker, planned |-> e.slot,
               actual |-> NoSlot]

\* FirstOrDefault(j => j.Id == id): a position in the list, 0 for null.
FirstJob(jobs, id) ==
    LET found == {i \in DOMAIN jobs : jobs[i].id = id}
    IN IF found = {} THEN 0 ELSE CHOOSE i \in found : \A k \in found : i <= k

\* When: the new list of jobs.
When(jobs, e) ==
    CASE e.type = "PortfolioPlanningCreated" -> << >>
      [] e.type = "TradingPlanned"  -> Append(jobs, Planned(e))
      [] e.type = "TradingFinished" ->
            [jobs EXCEPT ![FirstJob(jobs, e.jobId)].actual = e.slot]

\* The list after each of the events, from before the first to the last.
Replay(events) ==
    LET after[v \in 0 .. Len(events)] ==
            IF v = 0 THEN << >> ELSE When(after[v - 1], events[v])
    IN after[Len(events)]

Status(job) == IF job.actual = NoSlot THEN "Planned" ELSE "Completed"

Overlapping(jobs, slot) ==
    {i \in DOMAIN jobs : OverlapsWith(jobs[i].planned, slot)}

\* PlanTrading and FinishTrading reach RaiseEvent without an exception.
PlanTradingRaises(jobs, c) ==
    /\ IsValid(c.slot)
    /\ IsWithinOneDay(c.slot)
    /\ ~(Cardinality(Overlapping(jobs, c.slot)) >= AvailableWorkstations)
    /\ ~\E i \in Overlapping(jobs, c.slot) : jobs[i].ticker = c.ticker

FinishTradingRaises(jobs, c) ==
    LET first == FirstJob(jobs, c.jobId)
    IN /\ first # 0
       /\ Status(jobs[first]) # "Completed"
       /\ IsValid(c.slot)

Raises(jobs, c) ==
    IF c.type = "PlanTrading"
    THEN PlanTradingRaises(jobs, c)
    ELSE FinishTradingRaises(jobs, c)

-----------------------------------------------------------------------------

\* The set-based reading of a stored stream agrees with the replay of it, for
\* every command a client may send: what a request decides on the events is
\* what the code decides on the entities it rebuilds from them.
ReplayAgrees ==
    \A d \in Dates, c \in Commands :
        MayHandle(planningEvent[d], c) <=> Raises(Replay(planningEvent[d]), c)

=============================================================================
