------------------------------ MODULE Billing ------------------------------
(***************************************************************************)
(* What a client is billed for, whatever the database, the mail server and *)
(* the broker do: a job is planned, finished and settled, in this order;   *)
(* an invoice is mailed before it is registered and names finished jobs of *)
(* one client; a job is settled by a registered invoice; and it takes a    *)
(* failure each to register another invoice for the same job.              *)
(***************************************************************************)
EXTENDS Naturals, Sequences, FiniteSets

CONSTANTS
    Clients,
    Jobs

Invoices == {i \in [client : Clients, jobs : SUBSET Jobs] : i.jobs # {}}

VARIABLES
    owner,      \* the clients of the jobs planned so far
    stage,      \* how far those jobs have come
    mail,       \* the invoices mailed
    bills,      \* the invoices registered, oldest first
    troubles    \* how often something went wrong

vars == <<owner, stage, mail, bills, troubles>>

Init ==
    /\ owner = << >>
    /\ stage = << >>
    /\ mail = {}
    /\ bills = << >>
    /\ troubles = 0

Plan(j, c) ==
    /\ j \notin DOMAIN stage
    /\ owner' = [k \in DOMAIN owner \cup {j} |-> IF k = j THEN c ELSE owner[k]]
    /\ stage' = [k \in DOMAIN stage \cup {j} |-> IF k = j THEN "planned" ELSE stage[k]]
    /\ UNCHANGED <<mail, bills, troubles>>

Advance(j, from, to) ==
    /\ j \in DOMAIN stage
    /\ stage[j] = from
    /\ stage' = [stage EXCEPT ![j] = to]
    /\ UNCHANGED <<owner, mail, bills, troubles>>

Finish(j) == Advance(j, "planned", "finished")

\* A mail may also be lost.
Mail(i) ==
    /\ \A j \in i.jobs : /\ j \in DOMAIN stage
                         /\ stage[j] # "planned"
                         /\ owner[j] = i.client
    /\ mail' = mail \cup {i}
    /\ troubles' \in {troubles, troubles + 1}
    /\ UNCHANGED <<owner, stage, bills>>

BillsOf(j) == {n \in DOMAIN bills : j \in bills[n].jobs}

Register(i) ==
    /\ i \in mail
    /\ \A j \in i.jobs : Cardinality(BillsOf(j)) <= troubles
    /\ bills' = Append(bills, i)
    /\ UNCHANGED <<owner, stage, mail, troubles>>

Settle(j) ==
    /\ \E n \in DOMAIN bills : j \in bills[n].jobs
    /\ Advance(j, "finished", "settled")

Trouble ==
    /\ troubles' = troubles + 1
    /\ UNCHANGED <<owner, stage, mail, bills>>

Next ==
    \/ \E j \in Jobs : \/ \E c \in Clients : Plan(j, c)
                       \/ Finish(j)
                       \/ Settle(j)
    \/ \E i \in Invoices : Mail(i) \/ Register(i)
    \/ Trouble

Spec == Init /\ [][Next]_vars

=============================================================================
