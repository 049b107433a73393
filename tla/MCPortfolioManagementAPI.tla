---------------------- MODULE MCPortfolioManagementAPI ----------------------
(* PortfolioManagementAPI on a small instance.                             *)
EXTENDS PlanningReplay, TLC

Slot(from, to) == [start |-> from, end |-> to]

Plan(job, ticker, slot) ==
    [type |-> "PlanTrading", jobId |-> job, ticker |-> ticker, slot |-> slot]
Finish(job, slot) == [type |-> "FinishTrading", jobId |-> job, slot |-> slot]

CONSTANTS j1, j2, msft, ibm, d1, d2

MCTicksPerDay == 10

(***************************************************************************)
(* The calls a request may be: slots that touch, overlap, enclose each     *)
(* other and cross midnight, a job id planned twice and on two dates, a    *)
(* job finished twice, a finish that ends as it begins.                    *)
(***************************************************************************)
Calls ==
    << [date |-> d1, command |-> Plan(j1, msft, Slot(1, 6))],
       [date |-> d1, command |-> Plan(j2, msft, Slot(2, 4))],
       [date |-> d1, command |-> Plan(j2, ibm, Slot(4, 7))],
       [date |-> d1, command |-> Plan(j1, ibm, Slot(8, 12))],
       [date |-> d1, command |-> Finish(j1, Slot(1, 2))],
       [date |-> d1, command |-> Finish(j2, Slot(3, 3))],
       [date |-> d2, command |-> Plan(j1, msft, Slot(1, 6))] >>

MCCommands == {Calls[i].command : i \in DOMAIN Calls}

\* Requests are alike, so it is enough that they are numbered in the order of
\* their calls: any other behaviour is a renaming of one of these.
MCInit ==
    /\ Init
    /\ \E call \in [Requests -> DOMAIN Calls] :
          /\ \A r, q \in Requests : r < q => call[r] <= call[q]
          /\ \A r \in Requests : /\ date[r] = Calls[call[r]].date
                                 /\ command[r] = Calls[call[r]].command

MCSpec == MCInit /\ [][Next]_vars /\ Fairness

=============================================================================
