-------------------------- MODULE MCInvoiceService --------------------------
(* InvoiceService on a small instance.                                     *)
EXTENDS InvoiceService, TLC

CONSTANTS c1, c2, j1, j2, j3

\* An invoice of j1 and j2, and one of j3, costs as much as an invoice can; j3
\* with any other job costs too much, and all three are too many.
MCCost == j1 :> 4 @@ j2 :> 6 @@ j3 :> 10

Planned(job, owner) == [type |-> "TradingPlanned", jobId |-> job, clientId |-> owner]

\* Two plannings use the job id j3.
MCAnnouncements ==
    {[type |-> "ClientRegistered", clientId |-> c] : c \in Clients}
    \cup {Planned(j1, c1), Planned(j2, c1), Planned(j3, c1), Planned(j3, c2)}
    \cup {[type |-> "TradingFinished", jobId |-> j] : j \in Jobs}

(***************************************************************************)
(* Every job is the first client's, which is registered from the start,    *)
(* and any two jobs fit an invoice while all three exceed both columns:    *)
(* nothing but that overflow can block the loop.                           *)
(***************************************************************************)
MCOneClientPlans == MCAnnouncements \ {Planned(j3, c2)}
MCAlikeCost == [j \in Jobs |-> 4]

(***************************************************************************)
(* Activations are alike, so it is enough that the first one opens the     *)
(* channel.  The instance starts where the first client has been           *)
(* registered and two of its jobs planned, a state that Init leads to.      *)
(***************************************************************************)
Handled == {[type |-> "ClientRegistered", clientId |-> c1],
            Planned(j1, c1), Planned(j2, c1)}

MCInit ==
    /\ queue = << >>
    /\ channel = CHOOSE h \in Handlers : TRUE
    /\ handling = [h \in Handlers |-> Nothing]
    /\ client = {c1}
    /\ trading = [j \in {j1, j2} |->
                     [client |-> c1, finished |-> FALSE, invoiceSent |-> FALSE]]
    /\ invoice = << >>
    /\ mailed = {}
    /\ delivered = {}
    /\ pc = [h \in Handlers |-> "idle"]
    /\ todo = [h \in Handlers |-> {}]
    /\ current = [h \in Handlers |-> NoInvoice]
    /\ unflagged = [h \in Handlers |-> {}]
    /\ announced = Handled
    /\ failures = 0

MCSpec == MCInit /\ [][Next]_vars /\ Fairness

=============================================================================
