------------------------------- MODULE WebApp -------------------------------
(***************************************************************************)
(* The forms of WebApp that change something, and the three APIs behind    *)
(* them: PortfolioManagementAPI with every await of its requests, and the  *)
(* two registration services.  A request whose answer does not come goes   *)
(* on while its form is already retried.                                   *)
(***************************************************************************)
EXTENDS PortfolioManagementAPI, Registration, ResiliencyHelper

CONSTANTS
    Entries,        \* what users enter
    MaxFailures     \* bound: how often something outside may go wrong

RegistrationEntry == [form : {"RegisterClient"}]
                     \cup [form : {"RegisterStock"}, ticker : Tickers]
TradingEntry == [form : {"RegisterTrading"}, date : Dates, ticker : Tickers,
                 slot : TimePair]
FinishEntry  == [form : {"FinishTrading"}, date : Dates, jobId : JobIds,
                 slot : TimePair]

VARIABLES
    entry,          \* by form, what its user has entered
    failures        \* how often something outside went wrong

webVars == <<vars, registrationVars, helperVars, entry, failures>>

IsPlanning(f) == entry[f].form \in {"RegisterTrading", "FinishTrading"}

\* The command of an attempt.  The JobId is made by the retried action itself,
\* one for each attempt: the attempt stands for it.
CommandOf(e, a) ==
    IF e.form = "RegisterTrading"
    THEN [type |-> "PlanTrading", jobId |-> a, ticker |-> e.ticker, slot |-> e.slot]
    ELSE [type |-> "FinishTrading", jobId |-> e.jobId, slot |-> e.slot]

\* The key of an attempt: a ClientId is made by the retried action, too.
KeyOf(e, a) == IF e.form = "RegisterStock" THEN e.ticker ELSE a

ASSUME EntriesAssumption ==
    Entries \subseteq RegistrationEntry \cup TradingEntry \cup FinishEntry
\* Both services get their requests from these forms alone.
ASSUME RequestsAssumption == Requests = Attempts /\ Posts = Attempts
ASSUME KeysAssumption == Keys = Attempts \cup Tickers /\ Attempts \cap Tickers = {}

Carries(a) ==
    /\ IsPlanning(Form(a)) => /\ date[a] = entry[Form(a)].date
                              /\ command[a] = CommandOf(entry[Form(a)], a)
    /\ key[a] = KeyOf(entry[Form(a)], a)

WebInit ==
    /\ Init
    /\ RegistrationInit
    /\ HelperInit
    /\ entry \in [Forms -> Entries]
    /\ \A a \in Attempts : Carries(a)
    /\ failures = 0

GoWrong == failures < MaxFailures /\ failures' = failures + 1

-----------------------------------------------------------------------------
(* The forms.                                                              *)

\* The user submits the form.  The page with the form FinishTrading shows a job
\* that GetTrading has found.
Submit(f) ==
    /\ entry[f].form = "FinishTrading" =>
          HasJob(planningEvent[entry[f].date], entry[f].jobId)
    /\ Execute(f)
    /\ UNCHANGED <<vars, registrationVars, entry, failures>>

\* The request is sent.  RegisterTrading has looked up stock and client first.
Post(a) ==
    /\ Send(a)
    /\ UNCHANGED <<vars, registrationVars, entry, failures>>

\* An exception before the request is sent.  RegisterTrading: stock or client is
\* not found, which is null, or the service does not answer; an error status it
\* answers with is caught and forgotten.  FinishTrading: a time was left blank.
Abort(a) ==
    /\ call[a] = "running"
    /\ \/ IsPlanning(Form(a)) /\ Throw(a, "aborted")
       \/ entry[Form(a)].form = "RegisterTrading" /\ Show(a, "aborted", "Index")
    /\ GoWrong
    /\ UNCHANGED <<vars, registrationVars, entry>>

Hear(a, form, from) ==
    /\ call[a] = "posted"
    /\ entry[Form(a)].form = form
    /\ from # "none"
    /\ UNCHANGED <<vars, registrationVars, entry, failures>>

\* RegisterTrading catches every ApiException and looks for 409 alone: any other
\* status leads to the page of success.
HearPlanned(a) ==
    /\ Hear(a, "RegisterTrading", answer[a])
    /\ answer[a] # "Conflict"
    /\ Show(a, "returned", "Index")

HearConflict(a) ==
    /\ Hear(a, "RegisterTrading", answer[a])
    /\ answer[a] = "Conflict"
    /\ Show(a, "returned", "New")

\* The list of stocks for the page New cannot be fetched.
FailConflict(a) ==
    /\ call[a] = "posted"
    /\ entry[Form(a)].form = "RegisterTrading"
    /\ answer[a] = "Conflict"
    /\ Throw(a, "refused")
    /\ GoWrong
    /\ UNCHANGED <<vars, registrationVars, entry>>

\* A slip the properties must notice: the status not looked at.
HearAnything(a) ==
    /\ Hear(a, "FinishTrading", answer[a])
    /\ Show(a, "returned", "Details")

HearFinished(a) ==
    /\ Hear(a, "FinishTrading", answer[a])
    /\ IF answer[a] = "Ok" THEN Show(a, "returned", "Details") ELSE Throw(a, "refused")

HearRegistered(a) ==
    /\ \E form \in {"RegisterClient", "RegisterStock"} : Hear(a, form, status[a])
    /\ IF status[a] = "Created" THEN Show(a, "returned", "Index") ELSE Throw(a, "refused")

\* The answer does not arrive: the connection is lost, or HttpClient waits no
\* longer.  The request may never have arrived, be on its way or be done.
LoseAnswer(a) ==
    /\ call[a] = "posted"
    /\ Throw(a, "lost")
    /\ GoWrong
    /\ UNCHANGED <<vars, registrationVars, entry>>

-----------------------------------------------------------------------------
(* The services.                                                           *)

IsSent(a) == call[a] \in {"posted", "lost", "refused", "returned"}

ServePlanning(a) ==
    /\ IsSent(a)
    /\ IsPlanning(Form(a))
    /\ Step(a)
    /\ UNCHANGED <<registrationVars, helperVars, entry, failures>>

ServeRegistration(a) ==
    /\ IsSent(a)
    /\ ~IsPlanning(Form(a))
    /\ RegistrationStep(a)
    /\ UNCHANGED <<vars, helperVars, entry, failures>>

FailService(a) ==
    /\ IsSent(a)
    /\ IF IsPlanning(Form(a))
       THEN Fail(a) /\ UNCHANGED registrationVars
       ELSE BreakOff(a) /\ UNCHANGED vars
    /\ GoWrong
    /\ UNCHANGED <<helperVars, entry>>

-----------------------------------------------------------------------------

Use(a) ==
    \/ Post(a)
    \/ HearPlanned(a) \/ HearConflict(a) \/ HearFinished(a) \/ HearRegistered(a)
    \/ ServePlanning(a) \/ ServeRegistration(a)

Disturb(a) == Abort(a) \/ FailConflict(a) \/ LoseAnswer(a) \/ FailService(a)

WebNext ==
    \/ \E f \in Forms : Submit(f)
    \/ \E a \in Attempts : Use(a) \/ Disturb(a)

WebSpec == WebInit /\ [][WebNext]_webVars

-----------------------------------------------------------------------------
(* Properties.                                                             *)

\* Every variable of the forms and of the registration services holds what it
\* can hold, and the runs of a form take turns; PortfolioManagementAPI has TypeOK.
WebTypeOK ==
    /\ call \in [Attempts -> Calls]
    /\ page \in [Forms -> Pages]
    /\ RunsInTurn
    /\ entry \in [Forms -> Entries]
    /\ failures \in Nat
    /\ key \in [Posts -> Keys]
    /\ rows \subseteq Posts
    /\ stage \in [Posts -> {"insert", "publish", "done"}]
    /\ status \in [Posts -> {"none", "Created", "Error"}]
    /\ announcements \in Seq(Posts)

\* The jobs that the attempts of form f have planned or finished, as versions.
Effects(f) ==
    {v \in DOMAIN planningEvent[entry[f].date] :
        LET e == planningEvent[entry[f].date][v]
        IN Form(e.origin) = f /\ e.type # "PortfolioPlanningCreated"}

\* However often a trading form is retried, with a new JobId each time, and
\* however its attempts overlap, it plans or finishes one job at most: the time
\* slot of the first attempt is in the way of the next.
FormActsOnce ==
    \A f \in Forms : IsPlanning(f) => \A v, w \in Effects(f) : v = w

\* The event of the form is stored and the other services were told.
Took(f) ==
    \E v \in Effects(f) : \E i \in DOMAIN exchange :
        exchange[i] = planningEvent[entry[f].date][v]

Attempted(f, how) == \E a \in Attempts : Form(a) = f /\ call[a] = how

\* A status that RegisterTrading takes for success: its last attempt was not
\* understood, or was refused by something else than a business rule.
Swallowed(f) ==
    \E a \in Attempts : /\ Form(a) = f
                        /\ \/ call[a] = "aborted"
                           \/ call[a] = "returned" /\ answer[a] \in {"Concurrency", "Failed"}

\* What a user may conclude from the page.  Index after RegisterTrading: the job
\* is planned and announced, or a status was swallowed.  "Unable to register":
\* the form has planned nothing, or an answer was lost.  Details after
\* FinishTrading, Index after a registration: it is stored and announced.
PagesTellTheTruth ==
    \A f \in Forms :
        /\ page[f] = "Index" /\ entry[f].form = "RegisterTrading" => Took(f) \/ Swallowed(f)
        /\ page[f] = "New" => Effects(f) = {} \/ Attempted(f, "lost")
        /\ page[f] = "Details" => Took(f)
        /\ page[f] = "Index" /\ ~IsPlanning(f) =>
              \E a \in rows \cap Announced : Form(a) = f

\* A stock or a client whose registration was broken off before its event was
\* published stays unannounced for good: no retry of its form and no other form
\* makes up for it.
SilenceIsFinal ==
    [][\A a \in rows :
          (stage[a] = "done" /\ a \notin Announced) =>
              \A b \in Announced' : key[b] # key[a]]_webVars

\* The finish of a job reaches the other services before its planning only as
\* long as nobody was told that the job is planned.
FinishFollowsPlan ==
    [][exchange' # exchange =>
          LET e == exchange'[Len(exchange')] IN
          e.type = "TradingFinished" =>
             \/ answer[e.jobId] # "Created"
             \/ \E i \in DOMAIN exchange :
                   exchange[i].type = "TradingPlanned" /\ exchange[i].jobId = e.jobId]_webVars

-----------------------------------------------------------------------------
(* What the code says, and does not do.                                    *)

\* "Unable to save changes. Try again, ...": a user who is led to the list of
\* jobs, as after success, need not try again.
ShownIsPlanned ==
    \A f \in Forms :
        page[f] = "Index" /\ entry[f].form = "RegisterTrading" => Effects(f) # {}

=============================================================================
