--------------------------- MODULE PlanningLedger ---------------------------
(***************************************************************************)
(* What the planning service promises, whatever its requests, its database *)
(* and its failures do: one ledger of events per date, to which a request  *)
(* adds its events at most once, in one step, and only when the business   *)
(* rules allow its command on the whole ledger as it stands.               *)
(***************************************************************************)
EXTENDS Sequences

CONSTANTS
    Dates,              \* planning dates, the ids of the aggregates
    Requests,           \* the requests served
    Commands,           \* the commands clients send
    MayHandle(_, _),    \* the rules: may this ledger take this command?
    NewEvents(_, _, _)  \* what it takes for it, from this request

VARIABLE ledger

Untouched(r) ==
    \A d \in Dates : \A v \in DOMAIN ledger[d] : ledger[d][v].origin # r

Init == ledger = [d \in Dates |-> << >>]

Enter(r, d, command) ==
    /\ Untouched(r)
    /\ MayHandle(ledger[d], command)
    /\ ledger' = [ledger EXCEPT ![d] = @ \o NewEvents(@, command, r)]

Next == \E r \in Requests, d \in Dates, command \in Commands : Enter(r, d, command)

Spec == Init /\ [][Next]_ledger

=============================================================================
