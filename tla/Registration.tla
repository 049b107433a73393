---------------------------- MODULE Registration ----------------------------
(***************************************************************************)
(* ClientManagementAPI and StockManagementAPI: each POST inserts one row   *)
(* and then publishes one event.  The two services differ in their key     *)
(* alone, so their tables are kept together.  A row is known by the POST   *)
(* whose command it holds, and so is the event.  One action per await.     *)
(***************************************************************************)
EXTENDS Sequences

CONSTANTS
    Posts,  \* the POST requests served, one command each
    Keys    \* ClientIds and tickers, the primary keys

VARIABLES
    key,            \* by POST, the key its command carries
    rows,           \* tables Client and Stock: the POSTs whose row they hold
    stage,          \* by POST, the await it is at
    status,         \* by POST, what its caller was told
    announcements   \* ClientRegistered and StockRegistered, oldest first

registrationVars == <<key, rows, stage, status, announcements>>

RegistrationInit ==
    /\ key \in [Posts -> Keys]
    /\ rows = {}
    /\ stage = [p \in Posts |-> "insert"]
    /\ status = [p \in Posts |-> "none"]
    /\ announcements = << >>

IsRegistered(k) == \E q \in rows : key[q] = k

Announced == {announcements[i] : i \in DOMAIN announcements}

Answered(p, what) ==
    /\ status' = [status EXCEPT ![p] = what]
    /\ stage' = [stage EXCEPT ![p] = "done"]

\* SaveChangesAsync inserts the row.
InsertRow(p) ==
    /\ stage[p] = "insert"
    /\ ~IsRegistered(key[p])
    /\ rows' = rows \cup {p}
    /\ stage' = [stage EXCEPT ![p] = "publish"]
    /\ UNCHANGED <<key, status, announcements>>

\* A slip the properties must notice: a row that exists taken for one's own.
AdoptRow(p) ==
    /\ stage[p] = "insert"
    /\ IsRegistered(key[p])
    /\ stage' = [stage EXCEPT ![p] = "publish"]
    /\ UNCHANGED <<key, rows, status, announcements>>

\* The primary key refuses the row: DbUpdateException, status 500.
RefuseRow(p) ==
    /\ stage[p] = "insert"
    /\ IsRegistered(key[p])
    /\ Answered(p, "Error")
    /\ UNCHANGED <<key, rows, announcements>>

\* The event is published and the caller told, which takes no further await.
PublishRegistered(p) ==
    /\ stage[p] = "publish"
    /\ announcements' = Append(announcements, p)
    /\ Answered(p, "Created")
    /\ UNCHANGED <<key, rows>>

\* The database or the broker throws, also after it has done what was asked, or
\* the process ends.  Nothing resumes the request.
BreakOff(p) ==
    /\ stage[p] # "done"
    /\ Answered(p, "Error")
    /\ UNCHANGED <<key, rows, announcements>>

RegistrationStep(p) == InsertRow(p) \/ RefuseRow(p) \/ PublishRegistered(p)

=============================================================================
