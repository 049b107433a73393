------------------ MODULE MCPortfolioManagementEventHandler ------------------
(* PortfolioManagementEventHandler on a small instance.                    *)
EXTENDS PortfolioManagementEventHandler

CONSTANTS c1, c2, s1, j1, j2

Planned(job, owner) ==
    [type |-> "TradingPlanned", jobId |-> job, clientId |-> owner, ticker |-> s1]

\* The stock is registered by one client and traded by both, the job id j1 is
\* planned twice, and nothing keeps the events of the services in order.
MCAnnouncements ==
    {[type |-> "ClientRegistered", clientId |-> c1],
     [type |-> "StockRegistered", ticker |-> s1, ownerId |-> c2],
     [type |-> "TradingFinished", jobId |-> j1],
     Planned(j1, c1), Planned(j1, c2), Planned(j2, c1)}

\* Activations are alike: it is enough that the first one opens the channel.
MCInit == Init /\ channel = CHOOSE h \in Handlers : TRUE

MCSpec == MCInit /\ [][Next]_vars /\ Fairness

=============================================================================
