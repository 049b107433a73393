-------------------------- MODULE ResiliencyHelper --------------------------
(***************************************************************************)
(* ResiliencyHelper of WebApp: the action of a form is run until one run   *)
(* returns a page.  A run that an exception ends is retried at once, and   *)
(* the exception of the last one is answered with the page Offline.  The   *)
(* controllers extend this module and give it what one run does.           *)
(***************************************************************************)
EXTENDS Naturals

CONSTANTS
    Forms,          \* the forms that are submitted, once each
    MaxAttempts     \* runs of an action: RetryAsync(5) makes them 6

ASSUME AttemptsAssumption == MaxAttempts \in Nat \ {0}

\* The runs of the actions, which also stand for the HTTP requests they send:
\* a form and which of its runs it is.
Attempts == Forms \X (1 .. MaxAttempts)

Form(a) == a[1]

VARIABLES
    call,   \* by attempt, how far the run is
    page    \* by form, the page that its user sees after it

helperVars == <<call, page>>

(***************************************************************************)
(* "running" is before the request is sent and "posted" after it.  A run   *)
(* ends because its answer is there ("returned"), or in an exception: for  *)
(* the status of the answer ("refused"), for want of one ("lost"), or      *)
(* before the request was sent ("aborted").                                *)
(***************************************************************************)
UnderWay == {"running", "posted"}
Thrown   == {"refused", "lost", "aborted"}
Calls    == {"unmade", "returned"} \cup UnderWay \cup Thrown

Pages == {"none", "Index", "Details", "New", "Offline"}

HelperInit ==
    /\ call = [a \in Attempts |-> "unmade"]
    /\ page = [f \in Forms |-> "none"]

\* ExecuteResilient is called.
Execute(f) ==
    /\ call[<<f, 1>>] = "unmade"
    /\ call' = [call EXCEPT ![<<f, 1>>] = "running"]
    /\ UNCHANGED page

\* The run sends its request.
Send(a) ==
    /\ call[a] = "running"
    /\ call' = [call EXCEPT ![a] = "posted"]
    /\ UNCHANGED page

\* The run returns page p.
Show(a, how, p) ==
    /\ call' = [call EXCEPT ![a] = how]
    /\ page' = [page EXCEPT ![Form(a)] = p]

\* A slip the properties must notice: RetryForeverAsync.
RetryForEver(a, how) ==
    LET next == (a[2] % MaxAttempts) + 1
    IN /\ call' = [call EXCEPT ![a] = how, ![<<Form(a), next>>] = "running"]
       /\ UNCHANGED page

\* The run throws: the next one begins, or there is none left.
Throw(a, how) ==
    IF a[2] < MaxAttempts
    THEN /\ call' = [call EXCEPT ![a] = how, ![<<Form(a), a[2] + 1>>] = "running"]
         /\ UNCHANGED page
    ELSE Show(a, how, "Offline")

-----------------------------------------------------------------------------

\* Runs of a form follow each other, each on an exception of the one before, and
\* the user sees nothing exactly while one of them is under way.
RunsInTurn ==
    \A f \in Forms :
        /\ \A i \in 1 .. MaxAttempts :
              call[<<f, i>>] # "unmade" => \A j \in 1 .. i - 1 : call[<<f, j>>] \in Thrown
        /\ page[f] = "none" <=> \/ call[<<f, 1>>] = "unmade"
                               \/ \E i \in 1 .. MaxAttempts : call[<<f, i>>] \in UnderWay

=============================================================================
