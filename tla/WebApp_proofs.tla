---------------------------- MODULE WebApp_proofs ----------------------------
(***************************************************************************)
(* Proofs about WebApp and the services behind it, for every number of     *)
(* forms, attempts, entries and failures.                                  *)
(***************************************************************************)
EXTENDS WebApp, PortfolioManagementAPI_proofs

-----------------------------------------------------------------------------
(* The planning service is used as it is specified.                        *)

\* A step of the composition is a step of the planning service, or none.
LEMMA WebStepIsStep == [WebNext]_webVars => [Next]_vars
<1> SUFFICES ASSUME [WebNext]_webVars PROVE [Next]_vars
  OBVIOUS
<1>1. ASSUME NEW f \in Forms, Submit(f) PROVE UNCHANGED vars
  BY <1>1 DEF Submit
<1>2. ASSUME NEW a \in Attempts, Use(a), ~ServePlanning(a) PROVE UNCHANGED vars
  BY <1>2 DEF Use, Post, HearPlanned, HearConflict, HearFinished, HearRegistered, Hear,
              ServeRegistration
<1>3. ASSUME NEW a \in Attempts, ServePlanning(a) PROVE Next
  BY <1>3, RequestsAssumption DEF ServePlanning, Next
<1>4. ASSUME NEW a \in Attempts, Disturb(a), ~FailService(a) PROVE UNCHANGED vars
  BY <1>4 DEF Disturb, Abort, FailConflict, LoseAnswer
<1>5. ASSUME NEW a \in Attempts, FailService(a) PROVE Next \/ UNCHANGED vars
  BY <1>5, RequestsAssumption DEF FailService, Next
<1>6. CASE UNCHANGED webVars
  BY <1>6 DEF webVars
<1> QED
  BY <1>1, <1>2, <1>3, <1>4, <1>5, <1>6 DEF WebNext

\* Behind the forms, with their retries, the planning service behaves as specified,
\* so that all that is proved of it holds there too.
THEOREM ServedAsSpecified == WebSpec => Spec
<1>1. WebInit => Init
  BY DEF WebInit
<1> QED
  BY <1>1, WebStepIsStep, PTL DEF WebSpec, Spec

ServiceInv == ControlInv /\ PublicationInv /\ RequestInv /\ EventsAdmissible

LEMMA ServiceInvariant == WebSpec => []ServiceInv
<1>1. ControlInv /\ PublicationInv /\ RequestInv /\ EventsAdmissible => ServiceInv
  BY DEF ServiceInv
<1> QED
  BY <1>1, ServedAsSpecified, RequestInvariant, RulesHoldOfTheStore, PTL

-----------------------------------------------------------------------------
(* Forms and their attempts.                                               *)

LEMMA AttemptParts ==
    /\ \A a \in Attempts : /\ Form(a) \in Forms /\ a[2] \in 1 .. MaxAttempts
                           /\ a = <<Form(a), a[2]>>
    /\ \A f \in Forms : \A i \in 1 .. MaxAttempts :
          <<f, i>> \in Attempts /\ Form(<<f, i>>) = f /\ <<f, i>>[2] = i
    /\ MaxAttempts \in Nat \ {0}
BY AttemptsAssumption DEF Attempts, Form

HelperOK == /\ call \in [Attempts -> Calls]
            /\ page \in [Forms -> Pages]
            /\ RunsInTurn

\* While an attempt is under way it is the last one made, and nothing is shown.
LEMMA UnderWayIsLast ==
    ASSUME HelperOK, NEW a \in Attempts, call[a] \in UnderWay
    PROVE  /\ \A i \in 1 .. MaxAttempts : i < a[2] => call[<<Form(a), i>>] \in Thrown
           /\ \A i \in 1 .. MaxAttempts : i > a[2] => call[<<Form(a), i>>] = "unmade"
           /\ page[Form(a)] = "none"
<1>1. /\ Form(a) \in Forms /\ a[2] \in 1 .. MaxAttempts /\ a = <<Form(a), a[2]>>
      /\ MaxAttempts \in Nat \ {0}
  BY AttemptParts
<1>2. call[<<Form(a), a[2]>>] \in UnderWay
  BY <1>1
<1>3. \A i \in 1 .. MaxAttempts :
         call[<<Form(a), i>>] # "unmade" =>
            \A j \in 1 .. i - 1 : call[<<Form(a), j>>] \in Thrown
  BY <1>1 DEF HelperOK, RunsInTurn
<1>4. \A i \in 1 .. MaxAttempts : i < a[2] => call[<<Form(a), i>>] \in Thrown
  BY <1>1, <1>2, <1>3 DEF UnderWay
<1>5. \A i \in 1 .. MaxAttempts : i > a[2] => call[<<Form(a), i>>] = "unmade"
  BY <1>1, <1>2, <1>3 DEF UnderWay, Thrown
<1>6. page[Form(a)] = "none"
  BY <1>1, <1>2 DEF HelperOK, RunsInTurn
<1> QED
  BY <1>4, <1>5, <1>6

LEMMA ShowKeepsTurns ==
    ASSUME HelperOK, NEW a \in Attempts, call[a] \in UnderWay,
           NEW how \in Thrown \cup {"returned"}, NEW p \in Pages \ {"none"},
           Show(a, how, p)
    PROVE  HelperOK'
<1>1. /\ Form(a) \in Forms /\ a[2] \in 1 .. MaxAttempts /\ a = <<Form(a), a[2]>>
      /\ MaxAttempts \in Nat \ {0}
  BY AttemptParts
<1>2. /\ call' = [call EXCEPT ![a] = how] /\ page' = [page EXCEPT ![Form(a)] = p]
      /\ call \in [Attempts -> Calls] /\ page \in [Forms -> Pages]
  BY DEF Show, HelperOK
<1>3. call' \in [Attempts -> Calls] /\ page' \in [Forms -> Pages]
  BY <1>1, <1>2 DEF Calls, Pages, Thrown, UnderWay
<1>4. ASSUME NEW f \in Forms
      PROVE  /\ \A i \in 1 .. MaxAttempts :
                   call'[<<f, i>>] # "unmade" =>
                      \A j \in 1 .. i - 1 : call'[<<f, j>>] \in Thrown
             /\ page'[f] = "none" <=>
                   \/ call'[<<f, 1>>] = "unmade"
                   \/ \E i \in 1 .. MaxAttempts : call'[<<f, i>>] \in UnderWay
  <2>1. CASE f # Form(a)
    <3>1. \A i \in 1 .. MaxAttempts : call'[<<f, i>>] = call[<<f, i>>]
      BY <1>2, <2>1, AttemptParts
    <3>2. page'[f] = page[f]
      BY <1>2, <2>1
    <3> QED
      BY <1>1, <3>1, <3>2 DEF HelperOK, RunsInTurn
  <2>2. CASE f = Form(a)
    <3>1. /\ call'[<<f, a[2]>>] = how /\ page'[f] = p
          /\ \A i \in 1 .. MaxAttempts : i < a[2] => call'[<<f, i>>] \in Thrown
          /\ \A i \in 1 .. MaxAttempts : i > a[2] => call'[<<f, i>>] = "unmade"
      <4>1. \A i \in 1 .. MaxAttempts : i # a[2] => call'[<<f, i>>] = call[<<f, i>>]
        BY <1>1, <1>2, <2>2, AttemptParts
      <4> QED
        BY <1>1, <1>2, <2>2, <4>1, UnderWayIsLast
    <3>2. \A i \in 1 .. MaxAttempts : call'[<<f, i>>] \notin UnderWay
      <4>1. \A i \in 1 .. MaxAttempts : i < a[2] \/ i = a[2] \/ i > a[2]
        BY <1>1
      <4> QED
        BY <3>1, <4>1 DEF UnderWay, Thrown
    <3>3. call'[<<f, 1>>] # "unmade"
      BY <1>1, <3>1 DEF Thrown
    <3>4. \A i \in 1 .. MaxAttempts :
             call'[<<f, i>>] # "unmade" =>
                \A j \in 1 .. i - 1 : call'[<<f, j>>] \in Thrown
      BY <1>1, <3>1
    <3> QED
      BY <3>1, <3>2, <3>3, <3>4
  <2> QED
    BY <2>1, <2>2
<1> QED
  BY <1>3, <1>4 DEF HelperOK, RunsInTurn

LEMMA ThrowKeepsTurns ==
    ASSUME HelperOK, NEW a \in Attempts, call[a] \in UnderWay, NEW how \in Thrown,
           Throw(a, how)
    PROVE  HelperOK'
<1>1. /\ Form(a) \in Forms /\ a[2] \in 1 .. MaxAttempts /\ a = <<Form(a), a[2]>>
      /\ MaxAttempts \in Nat \ {0}
  BY AttemptParts
<1>2. CASE ~(a[2] < MaxAttempts)
  BY <1>2, ShowKeepsTurns DEF Throw, Pages
<1>3. CASE a[2] < MaxAttempts
  <2> DEFINE n == a[2] + 1
             b == <<Form(a), n>>
  <2>1. b \in Attempts /\ b # a /\ n \in 1 .. MaxAttempts
    BY <1>1, <1>3, AttemptParts
  <2>2. /\ call' = [call EXCEPT ![a] = how, ![b] = "running"] /\ page' = page
        /\ call \in [Attempts -> Calls] /\ page \in [Forms -> Pages]
    BY <1>3 DEF Throw, HelperOK
  <2>3. /\ call' \in [Attempts -> Calls] /\ page' \in [Forms -> Pages]
        /\ call'[a] = how /\ call'[b] = "running"
        /\ \A c \in Attempts : c # a /\ c # b => call'[c] = call[c]
    <3> HIDE DEF b
    <3> QED
      BY <2>1, <2>2 DEF Calls, Thrown, UnderWay
  <2>4. ASSUME NEW f \in Forms
        PROVE  /\ \A i \in 1 .. MaxAttempts :
                     call'[<<f, i>>] # "unmade" =>
                        \A j \in 1 .. i - 1 : call'[<<f, j>>] \in Thrown
               /\ page'[f] = "none" <=>
                     \/ call'[<<f, 1>>] = "unmade"
                     \/ \E i \in 1 .. MaxAttempts : call'[<<f, i>>] \in UnderWay
    <3>1. CASE f # Form(a)
      <4>1. ASSUME NEW i \in 1 .. MaxAttempts PROVE call'[<<f, i>>] = call[<<f, i>>]
        <5>1. <<f, i>> \in Attempts /\ Form(<<f, i>>) = f /\ Form(b) = Form(a)
          BY <2>1, AttemptParts
        <5>2. <<f, i>> # a /\ <<f, i>> # b
          BY <3>1, <5>1
        <5> QED
          BY <2>3, <5>1, <5>2
      <4>2. page'[f] = page[f]
        BY <2>2
      <4>3. \A i \in 1 .. MaxAttempts : \A j \in 1 .. i - 1 : j \in 1 .. MaxAttempts
        BY <1>1
      <4>4. 1 \in 1 .. MaxAttempts
        BY <1>1
      <4> HIDE DEF n
      <4>5. /\ \A i \in 1 .. MaxAttempts :
                  call[<<f, i>>] # "unmade" =>
                     \A j \in 1 .. i - 1 : call[<<f, j>>] \in Thrown
            /\ page[f] = "none" <=>
                  \/ call[<<f, 1>>] = "unmade"
                  \/ \E i \in 1 .. MaxAttempts : call[<<f, i>>] \in UnderWay
        BY DEF HelperOK, RunsInTurn
      <4> QED
        BY <4>1, <4>2, <4>3, <4>4, <4>5
    <3>2. CASE f = Form(a)
      <4>1. /\ call'[<<f, n>>] = "running" /\ call'[<<f, a[2]>>] = how
            /\ \A i \in 1 .. MaxAttempts : i < a[2] => call'[<<f, i>>] \in Thrown
            /\ \A i \in 1 .. MaxAttempts : i > n => call'[<<f, i>>] = "unmade"
        <5>1. ASSUME NEW i \in 1 .. MaxAttempts, i # a[2], i # n
              PROVE  call'[<<f, i>>] = call[<<f, i>>]
          <6>1. <<f, i>> \in Attempts /\ <<f, i>>[2] = i /\ b[2] = n
            BY <2>1, AttemptParts
          <6>2. <<f, i>> # a /\ <<f, i>> # b
            BY <5>1, <6>1
          <6> QED
            BY <2>3, <6>1, <6>2
        <5> QED
          BY <1>1, <2>1, <2>3, <3>2, <5>1, UnderWayIsLast
      <4>2. \A i \in 1 .. MaxAttempts :
               call'[<<f, i>>] # "unmade" =>
                  \A j \in 1 .. i - 1 : call'[<<f, j>>] \in Thrown
        BY <1>1, <4>1
      <4>3. page'[f] = "none"
        BY <2>2, <3>2, UnderWayIsLast
      <4>4. \E i \in 1 .. MaxAttempts : call'[<<f, i>>] \in UnderWay
        BY <2>1, <4>1 DEF UnderWay
      <4> QED
        BY <4>2, <4>3, <4>4
    <3> QED
      BY <3>1, <3>2
  <2> QED
    BY <2>3, <2>4 DEF HelperOK, RunsInTurn
<1> QED
  BY <1>2, <1>3

\* Run a ends as `how`; page p is shown, or none because the next run begins.
Ends(a, how, p) ==
    /\ call[a] \in UnderWay /\ call'[a] = how
    /\ \A c \in Attempts \ {a} :
          \/ call'[c] = call[c]
          \/ Form(c) = Form(a) /\ call[c] = "unmade" /\ call'[c] = "running"
    /\ \A f \in Forms \ {Form(a)} : page'[f] = page[f]
    /\ page[Form(a)] = "none" /\ page'[Form(a)] = p
    /\ HelperOK'

LEMMA ShowEnds ==
    ASSUME HelperOK, NEW a \in Attempts, call[a] \in UnderWay,
           NEW how \in Thrown \cup {"returned"}, NEW p \in Pages \ {"none"},
           Show(a, how, p)
    PROVE  Ends(a, how, p)
<1>1. HelperOK' /\ page[Form(a)] = "none" /\ Form(a) \in Forms
  BY ShowKeepsTurns, UnderWayIsLast, AttemptParts
<1> QED
  BY <1>1 DEF Ends, Show, HelperOK

LEMMA ThrowEnds ==
    ASSUME HelperOK, NEW a \in Attempts, call[a] \in UnderWay, NEW how \in Thrown,
           Throw(a, how)
    PROVE  \E p \in {"none", "Offline"} : Ends(a, how, p)
<1>1. /\ Form(a) \in Forms /\ a[2] \in 1 .. MaxAttempts /\ a = <<Form(a), a[2]>>
      /\ MaxAttempts \in Nat \ {0}
  BY AttemptParts
<1>2. CASE ~(a[2] < MaxAttempts)
  BY <1>2, ShowEnds DEF Throw, Pages
<1>3. CASE a[2] < MaxAttempts
  <2> DEFINE n == a[2] + 1
             b == <<Form(a), n>>
  <2>1. /\ b \in Attempts /\ b # a /\ Form(b) = Form(a) /\ call[b] = "unmade"
        /\ page[Form(a)] = "none"
    BY <1>1, <1>3, AttemptParts, UnderWayIsLast
  <2>2. /\ call' = [call EXCEPT ![a] = how, ![b] = "running"] /\ page' = page
        /\ call \in [Attempts -> Calls]
    BY <1>3 DEF Throw, HelperOK
  <2>3. HelperOK'
    BY ThrowKeepsTurns
  <2> HIDE DEF b
  <2> QED
    BY <2>1, <2>2, <2>3 DEF Ends
<1> QED
  BY <1>2, <1>3

-----------------------------------------------------------------------------
(* What a step of the composition does to a form.                          *)

\* What is known when a run ends.
Outcome(a, how, p) ==
    LET form == entry[Form(a)].form IN
    /\ how = "aborted" => call[a] = "running"
    /\ \/ /\ p \in {"none", "Offline"}
          /\ \/ how \in {"aborted", "lost"}
             \/ how = "refused" /\ (form = "RegisterTrading" => answer[a] = "Conflict")
       \/ /\ p = "Index" /\ form = "RegisterTrading"
          /\ \/ how = "aborted"
             \/ how = "returned" /\ answer[a] \notin {"none", "Conflict"}
       \/ p = "New" /\ form = "RegisterTrading" /\ how = "returned" /\ answer[a] = "Conflict"
       \/ p = "Details" /\ how = "returned" /\ form = "FinishTrading" /\ answer[a] = "Ok"
       \/ p = "Index" /\ how = "returned" /\ ~IsPlanning(Form(a)) /\ status[a] = "Created"

EndOfRun ==
    \E a \in Attempts : \E how \in Thrown \cup {"returned"} : \E p \in Pages :
        /\ Ends(a, how, p) /\ Outcome(a, how, p)
        /\ UNCHANGED <<vars, registrationVars>>

LEMMA FormSteps ==
    ASSUME HelperOK, [WebNext]_webVars
    PROVE  /\ UNCHANGED entry
           /\ \/ UNCHANGED helperVars
              \/ \E f \in Forms : Submit(f)
              \/ \E a \in Attempts : Post(a)
              \/ EndOfRun
<1> USE DEF UnderWay, Thrown, Pages, GoWrong, Hear
<1>1. ASSUME NEW f \in Forms, Submit(f) PROVE UNCHANGED entry
  BY <1>1 DEF Submit
<1>2. ASSUME NEW a \in Attempts, Post(a) PROVE UNCHANGED entry
  BY <1>2 DEF Post
<1>3. ASSUME NEW a \in Attempts, HearPlanned(a) PROVE UNCHANGED entry /\ EndOfRun
  <2>1. Ends(a, "returned", "Index")
    BY <1>3, ShowEnds DEF HearPlanned
  <2> QED
    BY <1>3, <2>1 DEF HearPlanned, Outcome, EndOfRun
<1>4. ASSUME NEW a \in Attempts, HearConflict(a) PROVE UNCHANGED entry /\ EndOfRun
  <2>1. Ends(a, "returned", "New")
    BY <1>4, ShowEnds DEF HearConflict
  <2> QED
    BY <1>4, <2>1 DEF HearConflict, Outcome, EndOfRun
<1>5. ASSUME NEW a \in Attempts, HearFinished(a) PROVE UNCHANGED entry /\ EndOfRun
  <2>1. CASE answer[a] = "Ok"
    <3>1. Ends(a, "returned", "Details")
      BY <1>5, <2>1, ShowEnds DEF HearFinished
    <3> QED
      BY <1>5, <2>1, <3>1 DEF HearFinished, Outcome, EndOfRun
  <2>2. CASE answer[a] # "Ok"
    <3>1. PICK p \in {"none", "Offline"} : Ends(a, "refused", p)
      BY <1>5, <2>2, ThrowEnds DEF HearFinished
    <3> QED
      BY <1>5, <2>2, <3>1 DEF HearFinished, Outcome, EndOfRun
  <2> QED
    BY <2>1, <2>2
<1>6. ASSUME NEW a \in Attempts, HearRegistered(a) PROVE UNCHANGED entry /\ EndOfRun
  <2>1. CASE status[a] = "Created"
    <3>1. Ends(a, "returned", "Index")
      BY <1>6, <2>1, ShowEnds DEF HearRegistered
    <3> QED
      BY <1>6, <2>1, <3>1 DEF HearRegistered, Outcome, EndOfRun, IsPlanning
  <2>2. CASE status[a] # "Created"
    <3>1. PICK p \in {"none", "Offline"} : Ends(a, "refused", p)
      BY <1>6, <2>2, ThrowEnds DEF HearRegistered
    <3> QED
      BY <1>6, <2>2, <3>1 DEF HearRegistered, Outcome, EndOfRun
  <2> QED
    BY <2>1, <2>2
<1>7. ASSUME NEW a \in Attempts, Abort(a) PROVE UNCHANGED entry /\ EndOfRun
  <2>1. CASE Throw(a, "aborted")
    <3>1. PICK p \in {"none", "Offline"} : Ends(a, "aborted", p)
      BY <1>7, <2>1, ThrowEnds DEF Abort
    <3> QED
      BY <1>7, <3>1 DEF Abort, Outcome, EndOfRun
  <2>2. CASE entry[Form(a)].form = "RegisterTrading" /\ Show(a, "aborted", "Index")
    <3>1. Ends(a, "aborted", "Index")
      BY <1>7, <2>2, ShowEnds DEF Abort
    <3> QED
      BY <1>7, <2>2, <3>1 DEF Abort, Outcome, EndOfRun
  <2> QED
    BY <1>7, <2>1, <2>2 DEF Abort
<1>8. ASSUME NEW a \in Attempts, FailConflict(a) PROVE UNCHANGED entry /\ EndOfRun
  <2>1. PICK p \in {"none", "Offline"} : Ends(a, "refused", p)
    BY <1>8, ThrowEnds DEF FailConflict
  <2> QED
    BY <1>8, <2>1 DEF FailConflict, Outcome, EndOfRun
<1>9. ASSUME NEW a \in Attempts, LoseAnswer(a) PROVE UNCHANGED entry /\ EndOfRun
  <2>1. PICK p \in {"none", "Offline"} : Ends(a, "lost", p)
    BY <1>9, ThrowEnds DEF LoseAnswer
  <2> QED
    BY <1>9, <2>1 DEF LoseAnswer, Outcome, EndOfRun
<1>10. ASSUME NEW a \in Attempts, ServePlanning(a) \/ ServeRegistration(a) \/ FailService(a)
       PROVE  UNCHANGED entry /\ UNCHANGED helperVars
  BY <1>10 DEF ServePlanning, ServeRegistration, FailService
<1>11. CASE UNCHANGED webVars
  BY <1>11 DEF webVars
<1> QED
  BY <1>1, <1>2, <1>3, <1>4, <1>5, <1>6, <1>7, <1>8, <1>9, <1>10, <1>11
     DEF WebNext, Use, Disturb

\* The helper keeps its runs in turn, and what has ended or is shown stays.
LEMMA FormsFrame ==
    ASSUME HelperOK, [WebNext]_webVars
    PROVE  /\ HelperOK'
           /\ \A a \in Attempts :
                 call[a] \in Thrown \cup {"returned"} => call'[a] = call[a]
           /\ \A f \in Forms :
                 page[f] # "none" =>
                    /\ page'[f] = page[f]
                    /\ \A a \in Attempts : Form(a) = f => call'[a] = call[a]
<1>1. CASE UNCHANGED helperVars
  BY <1>1 DEF helperVars, HelperOK, RunsInTurn
<1>2. ASSUME NEW f \in Forms, Submit(f)
      PROVE  /\ HelperOK' /\ page' = page /\ page[f] = "none"
             /\ <<f, 1>> \in Attempts /\ Form(<<f, 1>>) = f
             /\ call' = [call EXCEPT ![<<f, 1>>] = "running"]
             /\ call[<<f, 1>>] = "unmade"
  <2>1. /\ call[<<f, 1>>] = "unmade" /\ page' = page
        /\ call' = [call EXCEPT ![<<f, 1>>] = "running"]
        /\ call \in [Attempts -> Calls] /\ page \in [Forms -> Pages]
    BY <1>2 DEF Submit, Execute, HelperOK
  <2>2. 1 \in 1 .. MaxAttempts /\ <<f, 1>> \in Attempts /\ Form(<<f, 1>>) = f
    BY AttemptParts
  <2>3. page[f] = "none" /\ \A i \in 1 .. MaxAttempts : call[<<f, i>>] = "unmade"
    <3>1. \A i \in 1 .. MaxAttempts : i # 1 => 1 \in 1 .. i - 1
      BY AttemptParts
    <3> QED
      BY <2>1, <3>1 DEF HelperOK, RunsInTurn, Thrown
  <2>4. ASSUME NEW g \in Forms, NEW i \in 1 .. MaxAttempts
        PROVE  call'[<<g, i>>] = IF g = f /\ i = 1 THEN "running" ELSE call[<<g, i>>]
    <3>1. <<g, i>> \in Attempts /\ (<<g, i>> = <<f, 1>> <=> g = f /\ i = 1)
      BY AttemptParts
    <3> QED
      BY <2>1, <2>2, <3>1
  <2>5. ASSUME NEW g \in Forms
        PROVE  /\ \A i \in 1 .. MaxAttempts :
                     call'[<<g, i>>] # "unmade" =>
                        \A j \in 1 .. i - 1 : call'[<<g, j>>] \in Thrown
               /\ page'[g] = "none" <=>
                     \/ call'[<<g, 1>>] = "unmade"
                     \/ \E i \in 1 .. MaxAttempts : call'[<<g, i>>] \in UnderWay
    <3>1. \A i \in 1 .. MaxAttempts : \A j \in 1 .. i - 1 : j \in 1 .. MaxAttempts
      BY AttemptParts
    <3>2. CASE g = f
      BY <2>1, <2>2, <2>3, <2>4, <3>2 DEF UnderWay
    <3>3. CASE g # f
      <4>1. \A i \in 1 .. MaxAttempts : call'[<<g, i>>] = call[<<g, i>>]
        BY <2>4, <3>3
      <4>2. page'[g] = page[g] /\ 1 \in 1 .. MaxAttempts
        BY <2>1, <2>2
      <4>3. /\ \A i \in 1 .. MaxAttempts :
                  call[<<g, i>>] # "unmade" =>
                     \A j \in 1 .. i - 1 : call[<<g, j>>] \in Thrown
            /\ page[g] = "none" <=>
                  \/ call[<<g, 1>>] = "unmade"
                  \/ \E i \in 1 .. MaxAttempts : call[<<g, i>>] \in UnderWay
        BY DEF HelperOK, RunsInTurn
      <4> QED
        BY <3>1, <4>1, <4>2, <4>3
    <3> QED
      BY <3>2, <3>3
  <2>6. call' \in [Attempts -> Calls] /\ page' \in [Forms -> Pages]
    <3> DEFINE b == <<f, 1>>
    <3>1. b \in Attempts /\ call' = [call EXCEPT ![b] = "running"] /\ page' = page
          /\ call \in [Attempts -> Calls] /\ page \in [Forms -> Pages]
      BY <2>1, <2>2
    <3> HIDE DEF b
    <3>2. "running" \in Calls
      BY DEF Calls, UnderWay
    <3> QED
      BY <3>1, <3>2
  <2> QED
    BY <2>1, <2>2, <2>3, <2>5, <2>6 DEF HelperOK, RunsInTurn
<1>3. ASSUME NEW b \in Attempts, Post(b)
      PROVE  /\ HelperOK' /\ page' = page /\ page[Form(b)] = "none"
             /\ call' = [call EXCEPT ![b] = "posted"] /\ call[b] = "running"
  <2>1. /\ call[b] = "running" /\ page' = page
        /\ call' = [call EXCEPT ![b] = "posted"]
        /\ call \in [Attempts -> Calls] /\ page \in [Forms -> Pages]
    BY <1>3 DEF Post, Send, HelperOK
  <2>2. page[Form(b)] = "none"
    BY <2>1, UnderWayIsLast DEF UnderWay
  <2>3. call' \in [Attempts -> Calls] /\ page' \in [Forms -> Pages]
    BY <2>1 DEF Calls, UnderWay
  <2>4. \A c \in Attempts : /\ call'[c] \in UnderWay <=> call[c] \in UnderWay
                            /\ call'[c] \in Thrown <=> call[c] \in Thrown
                            /\ call'[c] = "unmade" <=> call[c] = "unmade"
    BY <2>1 DEF UnderWay, Thrown
  <2>5. \A g \in Forms : \A i \in 1 .. MaxAttempts :
           /\ <<g, i>> \in Attempts
           /\ \A j \in 1 .. i - 1 : <<g, j>> \in Attempts
    <3>1. \A i \in 1 .. MaxAttempts : \A j \in 1 .. i - 1 : j \in 1 .. MaxAttempts
      BY AttemptParts
    <3> QED
      BY <3>1, AttemptParts
  <2>6. 1 \in 1 .. MaxAttempts
    BY AttemptParts
  <2>7. RunsInTurn'
    BY <2>1, <2>4, <2>5, <2>6 DEF HelperOK, RunsInTurn
  <2> QED
    BY <2>1, <2>2, <2>3, <2>7 DEF HelperOK
<1>4. CASE EndOfRun
  BY <1>4 DEF EndOfRun, Ends, UnderWay, Thrown
<1>5. CASE \E f \in Forms : Submit(f)
  BY <1>2, <1>5 DEF HelperOK, Thrown
<1>6. CASE \E b \in Attempts : Post(b)
  BY <1>3, <1>6 DEF HelperOK, Thrown
<1> QED
  BY <1>1, <1>4, <1>5, <1>6, FormSteps

-----------------------------------------------------------------------------
(* The registration services.                                              *)

\* A row exists before its event is published, the event before the caller is told
\* so, and no key has two rows.
RegistrationOK ==
    /\ key \in [Posts -> Keys]
    /\ rows \subseteq Posts
    /\ stage \in [Posts -> {"insert", "publish", "done"}]
    /\ status \in [Posts -> {"none", "Created", "Error"}]
    /\ announcements \in Seq(Posts)
    /\ \A p \in Posts :
          /\ stage[p] = "insert" => p \notin rows
          /\ stage[p] = "publish" => p \in rows /\ p \notin Announced
          /\ status[p] = "none" <=> stage[p] # "done"
          /\ status[p] = "Created" => p \in Announced
    /\ Announced \subseteq rows
    /\ \A p, q \in rows : key[p] = key[q] => p = q

\* What is done in a registration service is not undone.
RegistrationLasts ==
    /\ key' = key
    /\ rows \subseteq rows'
    /\ \A p \in Posts : /\ status[p] # "none" => status'[p] = status[p]
                        /\ stage[p] = "done" /\ p \notin Announced => p \notin Announced'

LEMMA RegistrationMoves ==
    ASSUME RegistrationOK, NEW p \in Posts, RegistrationStep(p) \/ BreakOff(p)
    PROVE  RegistrationOK' /\ RegistrationLasts
<1> USE DEF Answered
<1>1. CASE InsertRow(p)
  <2>1. Announced' = Announced
    BY <1>1 DEF InsertRow, Announced
  <2> QED
    BY <1>1, <2>1 DEF InsertRow, RegistrationOK, RegistrationLasts, IsRegistered
<1>2. CASE RefuseRow(p) \/ BreakOff(p)
  <2>1. Announced' = Announced
    BY <1>2 DEF RefuseRow, BreakOff, Announced
  <2> QED
    BY <1>2, <2>1 DEF RefuseRow, BreakOff, RegistrationOK, RegistrationLasts
<1>3. CASE PublishRegistered(p)
  <2>1. /\ announcements' = Append(announcements, p)
        /\ announcements \in Seq(Posts)
    BY <1>3 DEF PublishRegistered, RegistrationOK
  <2>2. announcements' \in Seq(Posts) /\ Announced' = Announced \cup {p}
    BY <2>1 DEF Announced
  <2> QED
    BY <1>3, <2>2 DEF PublishRegistered, RegistrationOK, RegistrationLasts
<1> QED
  BY <1>1, <1>2, <1>3 DEF RegistrationStep

LEMMA RegistrationFrame ==
    ASSUME RegistrationOK, [WebNext]_webVars
    PROVE  RegistrationOK' /\ RegistrationLasts
<1>1. CASE UNCHANGED registrationVars
  <2>1. Announced' = Announced
    BY <1>1 DEF registrationVars, Announced
  <2> QED
    BY <1>1, <2>1 DEF registrationVars, RegistrationOK, RegistrationLasts
<1>2. ASSUME NEW p \in Attempts, RegistrationStep(p) \/ BreakOff(p)
      PROVE  RegistrationOK' /\ RegistrationLasts
  BY <1>2, RegistrationMoves, RequestsAssumption
<1>3. ASSUME NEW f \in Forms, Submit(f) PROVE UNCHANGED registrationVars
  BY <1>3 DEF Submit
<1>4. ASSUME NEW a \in Attempts, Use(a), ~ServeRegistration(a)
      PROVE  UNCHANGED registrationVars
  BY <1>4 DEF Use, Post, HearPlanned, HearConflict, HearFinished, HearRegistered, Hear,
              ServePlanning
<1>5. ASSUME NEW a \in Attempts, ServeRegistration(a)
      PROVE  RegistrationStep(a)
  BY <1>5 DEF ServeRegistration
<1>6. ASSUME NEW a \in Attempts, Disturb(a)
      PROVE  UNCHANGED registrationVars \/ BreakOff(a)
  BY <1>6 DEF Disturb, Abort, FailConflict, LoseAnswer, FailService
<1>7. CASE UNCHANGED webVars
  BY <1>1, <1>7 DEF webVars
<1> QED
  BY <1>1, <1>2, <1>3, <1>4, <1>5, <1>6, <1>7 DEF WebNext

-----------------------------------------------------------------------------
(* What the requests carry, and which of them are served.                  *)

EntryInv == /\ entry \in [Forms -> Entries]
            /\ \A a \in Attempts : Carries(a)

\* The planning service is called by the trading forms alone, and does not work on
\* a request before it is sent.
ServedInv ==
    \A a \in Attempts : ~IsPlanning(Form(a)) \/ ~IsSent(a) => pc[a] = "load"

\* The invariant of the composition, but for what the pages say.
WebInv == /\ ServiceInv
          /\ HelperOK
          /\ RegistrationOK
          /\ EntryInv
          /\ ServedInv

\* A request works for itself alone.
LEMMA StepIsLocal ==
    ASSUME TypeOK, NEW q \in Requests, Step(q) \/ Fail(q)
    PROVE  \A r \in Requests \ {q} : pc'[r] = pc[r]
BY DEF TypeOK, Step, Fail, LoadPlanning, MissPlanning, LoadEvents, HandleCommand,
       RejectCommand, SelectPlanning, UpdatePlanning, UpdateNothing, InsertPlanning,
       InsertDuplicate, StoreEvents, PublishEvent, Respond, Goto, Answer, tables, inputs

LEMMA EntryFrame ==
    ASSUME ServiceInv, HelperOK, RegistrationOK, EntryInv, [WebNext]_webVars
    PROVE  EntryInv' /\ UNCHANGED <<entry, date, command, key>>
<1>1. UNCHANGED <<date, command>>
  BY WebStepIsStep, StepFrame DEF ServiceInv, ControlInv
<1>2. UNCHANGED entry
  BY FormSteps
<1>3. UNCHANGED key
  BY RegistrationFrame DEF RegistrationLasts
<1>4. ASSUME NEW a \in Attempts PROVE Carries(a)'
  <2>1. Carries(a)
    BY DEF EntryInv
  <2> QED
    BY <1>1, <1>2, <1>3, <2>1 DEF Carries, IsPlanning
<1> QED
  BY <1>1, <1>2, <1>3, <1>4 DEF EntryInv

LEMMA NextKeepsServed ==
    ASSUME WebInv, [WebNext]_webVars
    PROVE  ServedInv'
<1> SUFFICES ASSUME NEW a \in Attempts, (~IsPlanning(Form(a)) \/ ~IsSent(a))'
             PROVE  pc'[a] = "load"
  BY DEF ServedInv
<1>1. /\ TypeOK /\ HelperOK /\ RegistrationOK /\ EntryInv /\ ServedInv
      /\ a \in Requests /\ Requests = Attempts /\ ServiceInv
  BY RequestsAssumption DEF WebInv, ServiceInv, ControlInv
<1>2. IsPlanning(Form(a))' = IsPlanning(Form(a))
  BY <1>1, FormSteps DEF IsPlanning
<1>3. IsSent(a) => IsSent(a)'
  <2>1. CASE call[a] = "posted"
    <3>1. CASE UNCHANGED helperVars
      BY <2>1, <3>1 DEF helperVars, IsSent
    <3>2. CASE \E f \in Forms : Submit(f)
      <4>1. PICK f \in Forms : Submit(f)
        BY <3>2
      <4>2. call[<<f, 1>>] = "unmade" /\ call' = [call EXCEPT ![<<f, 1>>] = "running"]
        BY <4>1 DEF Submit, Execute
      <4>3. call'[a] = call[a]
        BY <1>1, <2>1, <4>2 DEF HelperOK
      <4> QED
        BY <2>1, <4>3 DEF IsSent
    <3>3. CASE \E b \in Attempts : Post(b)
      <4>1. PICK b \in Attempts : Post(b)
        BY <3>3
      <4>2. call' = [call EXCEPT ![b] = "posted"]
        BY <4>1 DEF Post, Send
      <4> QED
        BY <1>1, <2>1, <4>2 DEF HelperOK, IsSent
    <3>4. CASE EndOfRun
      BY <2>1, <3>4 DEF EndOfRun, Ends, Outcome, IsSent, Thrown
    <3> QED
      BY <1>1, <3>1, <3>2, <3>3, <3>4, FormSteps
  <2>2. CASE call[a] \in {"lost", "refused", "returned"}
    BY <1>1, <2>2, FormsFrame DEF IsSent, Thrown
  <2> QED
    BY <2>1, <2>2 DEF IsSent
<1>4. ~IsPlanning(Form(a)) \/ ~IsSent(a)
  BY <1>2, <1>3
<1>5. pc[a] = "load"
  BY <1>1, <1>4 DEF ServedInv
<1>6. ASSUME NEW q \in Attempts, IsSent(q), IsPlanning(Form(q)), Step(q) \/ Fail(q)
      PROVE  pc'[a] = pc[a]
  BY <1>1, <1>4, <1>6, StepIsLocal
<1>7. ASSUME NEW f \in Forms, Submit(f) PROVE UNCHANGED pc
  BY <1>7 DEF Submit, vars
<1>8. ASSUME NEW q \in Attempts, Use(q), ~ServePlanning(q) PROVE UNCHANGED pc
  BY <1>8 DEF Use, Post, HearPlanned, HearConflict, HearFinished, HearRegistered, Hear,
              ServeRegistration, vars
<1>9. ASSUME NEW q \in Attempts, ServePlanning(q) PROVE pc'[a] = pc[a]
  BY <1>6, <1>9 DEF ServePlanning
<1>10. ASSUME NEW q \in Attempts, Disturb(q), ~FailService(q) PROVE UNCHANGED pc
  BY <1>10 DEF Disturb, Abort, FailConflict, LoseAnswer, vars
<1>11. ASSUME NEW q \in Attempts, FailService(q) PROVE pc'[a] = pc[a]
  <2>1. CASE IsPlanning(Form(q))
    BY <1>6, <1>11, <2>1 DEF FailService
  <2>2. CASE ~IsPlanning(Form(q))
    BY <1>11, <2>2 DEF FailService, vars
  <2> QED
    BY <2>1, <2>2
<1>12. CASE UNCHANGED webVars
  BY <1>5, <1>12 DEF webVars, vars
<1> QED
  BY <1>5, <1>7, <1>8, <1>9, <1>10, <1>11, <1>12 DEF WebNext

LEMMA InitWeb == WebInit => HelperOK /\ RegistrationOK /\ EntryInv /\ ServedInv
<1> SUFFICES ASSUME WebInit PROVE HelperOK /\ RegistrationOK /\ EntryInv /\ ServedInv
  OBVIOUS
<1>1. HelperOK
  <2>1. /\ call = [a \in Attempts |-> "unmade"] /\ page = [f \in Forms |-> "none"]
        /\ \A f \in Forms : \A i \in 1 .. MaxAttempts : <<f, i>> \in Attempts
        /\ 1 \in 1 .. MaxAttempts
    BY AttemptParts DEF WebInit, HelperInit
  <2>2. call \in [Attempts -> Calls] /\ page \in [Forms -> Pages]
    BY <2>1 DEF Calls, Pages
  <2>3. RunsInTurn
    BY <2>1 DEF RunsInTurn
  <2> QED
    BY <2>2, <2>3 DEF HelperOK
<1>2. RegistrationOK
  <2>1. announcements = << >> /\ Announced = {}
    BY DEF WebInit, RegistrationInit, Announced
  <2> QED
    BY <2>1 DEF WebInit, RegistrationInit, RegistrationOK
<1>3. EntryInv
  BY DEF WebInit, EntryInv
<1>4. ServedInv
  BY RequestsAssumption DEF WebInit, Init, ServedInv
<1> QED
  BY <1>1, <1>2, <1>3, <1>4

LEMMA WebInvariant == WebSpec => []WebInv
<1> DEFINE J == HelperOK /\ RegistrationOK /\ EntryInv /\ ServedInv
<1>1. WebInit => J
  BY InitWeb
<1>2. ServiceInv /\ J /\ [WebNext]_webVars => J'
  <2> SUFFICES ASSUME ServiceInv, J, [WebNext]_webVars PROVE J'
    OBVIOUS
  <2>1. WebInv
    BY DEF WebInv
  <2> QED
    BY <2>1, FormsFrame, RegistrationFrame, EntryFrame, NextKeepsServed
<1>3. ServiceInv /\ J => WebInv
  BY DEF WebInv
<1> HIDE DEF J
<1> QED
  BY <1>1, <1>2, <1>3, ServiceInvariant, PTL DEF WebSpec

\* The forms and the registration services keep their types, and the runs of a form
\* take turns, however requests and answers overlap.
THEOREM WebTypeCorrect == WebSpec => []WebTypeOK
<1> DEFINE F == failures \in Nat
<1>1. WebInit => F
  BY DEF WebInit
<1>2. F /\ [WebNext]_webVars => F'
  BY DEF WebNext, Submit, Use, Post, HearPlanned, HearConflict, HearFinished,
         HearRegistered, Hear, ServePlanning, ServeRegistration, Disturb, Abort,
         FailConflict, LoseAnswer, FailService, GoWrong, webVars
<1>3. WebInv /\ F => WebTypeOK
  BY DEF WebInv, HelperOK, EntryInv, RegistrationOK, WebTypeOK
<1> HIDE DEF F
<1> QED
  BY <1>1, <1>2, <1>3, WebInvariant, PTL DEF WebSpec

\* A registration broken off before its event was published is never made up for,
\* by any retry or any other form.
THEOREM SilenceLasts == WebSpec => SilenceIsFinal
<1>1. RegistrationOK /\ RegistrationOK' /\ [WebNext]_webVars =>
         [\A a \in rows :
             (stage[a] = "done" /\ a \notin Announced) =>
                \A b \in Announced' : key[b] # key[a]]_webVars
  <2> SUFFICES ASSUME RegistrationOK, RegistrationOK', [WebNext]_webVars,
                      NEW a \in rows, stage[a] = "done", a \notin Announced,
                      NEW b \in Announced'
               PROVE  key[b] # key[a]
    OBVIOUS
  <2>1. RegistrationLasts
    BY RegistrationFrame
  <2>2. /\ a \in Posts /\ a \in rows' /\ b \in rows' /\ key' = key
        /\ a \notin Announced'
    BY <2>1 DEF RegistrationOK, RegistrationLasts
  <2> QED
    BY <2>2 DEF RegistrationOK
<1>2. WebInv => RegistrationOK
  BY DEF WebInv
<1> QED
  BY <1>1, <1>2, WebInvariant, PTL DEF WebSpec, SilenceIsFinal

-----------------------------------------------------------------------------
(* What a form does to the plannings.                                      *)

\* An event that is not the creation of a planning says what its form was filled
\* with, and the attempt that raised it is the JobId of the job it plans.
LEMMA EventOfForm ==
    ASSUME WebInv, NEW d \in Dates, NEW v \in DOMAIN planningEvent[d],
           planningEvent[d][v].type # "PortfolioPlanningCreated"
    PROVE  LET e == planningEvent[d][v]
               n == entry[Form(e.origin)]
           IN /\ e.origin \in Attempts /\ IsPlanning(Form(e.origin)) /\ d = n.date
              /\ e = Raised(CommandOf(n, e.origin), e.origin)
<1> DEFINE e == planningEvent[d][v]
           q == e.origin
<1>1. /\ q \in Requests /\ Requests = Attempts /\ date[q] = d
      /\ e \in {Created(q), Raised(command[q], q)}
  BY RequestsAssumption DEF WebInv, ServiceInv, RequestInv, CarriesItsCommand
<1>2. e = Raised(command[q], q)
  BY <1>1 DEF Created
<1>3. Stored(q)
  BY DEF Stored
<1>4. pc[q] # "load"
  BY <1>1, <1>3 DEF WebInv, ServiceInv, PublicationInv, StoredOnlyByCommit
<1>5. IsPlanning(Form(q))
  BY <1>1, <1>4 DEF WebInv, ServedInv
<1>6. date[q] = entry[Form(q)].date /\ command[q] = CommandOf(entry[Form(q)], q)
  BY <1>1, <1>5 DEF WebInv, EntryInv, Carries
<1> QED
  BY <1>1, <1>2, <1>5, <1>6

EventsSpeak ==
    \A d \in Dates : \A v \in DOMAIN planningEvent[d] :
        LET e == planningEvent[d][v]
            n == entry[Form(e.origin)]
        IN e.type = "TradingPlanned" =>
              e.origin \in Attempts /\ e = Raised(CommandOf(n, e.origin), e.origin)

LEMMA WebInvSpeaks == WebInv => EventsSpeak
BY EventOfForm DEF EventsSpeak

LEMMA OneEffect ==
    ASSUME WebInv, NEW f \in Forms, IsPlanning(f), NEW v \in Effects(f),
           NEW w \in Effects(f), v < w
    PROVE  FALSE
<1> DEFINE n == entry[f]
           d == n.date
           b == planningEvent[d][v]
           e == planningEvent[d][w]
<1>1. /\ v \in DOMAIN planningEvent[d] /\ w \in DOMAIN planningEvent[d]
      /\ b.type # "PortfolioPlanningCreated" /\ e.type # "PortfolioPlanningCreated"
      /\ Form(b.origin) = f /\ Form(e.origin) = f
  BY DEF Effects
<1>2. d \in Dates
  <2>1. n \in RegistrationEntry \cup TradingEntry \cup FinishEntry
    BY EntriesAssumption DEF WebInv, EntryInv
  <2> QED
    BY <2>1 DEF IsPlanning, RegistrationEntry, TradingEntry, FinishEntry
<1>3. /\ b = Raised(CommandOf(n, b.origin), b.origin)
      /\ e = Raised(CommandOf(n, e.origin), e.origin)
  BY <1>1, <1>2, EventOfForm
<1>4. Admissible(e, Before(planningEvent[d], w))
  BY <1>1, <1>2 DEF WebInv, ServiceInv, EventsAdmissible
<1>5. /\ v \in DOMAIN Before(planningEvent[d], w)
      /\ Before(planningEvent[d], w)[v] = b
  BY <1>1 DEF Before
<1>6. CASE n.form = "RegisterTrading"
  <2>1. /\ b.type = "TradingPlanned" /\ b.ticker = n.ticker /\ b.slot = n.slot
        /\ e.type = "TradingPlanned" /\ e.ticker = n.ticker /\ e.slot = n.slot
    BY <1>3, <1>6 DEF Raised, CommandOf
  <2>2. MayPlan(Before(planningEvent[d], w), e)
    BY <1>4, <2>1 DEF Admissible
  <2>3. v \in JobsOn(Before(planningEvent[d], w), e.ticker)
    BY <1>5, <2>1 DEF JobsOn, Jobs
  <2>4. ~OverlapsWith(n.slot, n.slot)
    BY <1>5, <2>1, <2>2, <2>3 DEF MayPlan, StockIsFree
  <2>5. n.slot \in TimePair /\ IsValid(n.slot)
    <3>1. n \in RegistrationEntry \cup TradingEntry \cup FinishEntry
      BY EntriesAssumption DEF WebInv, EntryInv
    <3>2. n.slot \in TimePair
      BY <1>6, <3>1 DEF RegistrationEntry, TradingEntry, FinishEntry
    <3> QED
      BY <2>1, <2>2, <3>2 DEF MayPlan
  <2> QED
    BY <2>4, <2>5 DEF OverlapsWith, TimePair, IsValid
<1>7. CASE n.form = "FinishTrading"
  <2>1. /\ b.type = "TradingFinished" /\ b.jobId = n.jobId
        /\ e.type = "TradingFinished" /\ e.jobId = n.jobId
    BY <1>3, <1>7 DEF Raised, CommandOf
  <2>2. MayFinish(Before(planningEvent[d], w), e)
    BY <1>4, <2>1 DEF Admissible
  <2> QED
    BY <1>5, <2>1, <2>2 DEF MayFinish, IsCompleted
<1> QED
  BY <1>6, <1>7 DEF IsPlanning

\* However often a trading form is retried and however its requests overlap, it
\* plans or finishes at most one job.
THEOREM FormsActOnce == WebSpec => []FormActsOnce
<1>1. WebInv => FormActsOnce
  <2> SUFFICES ASSUME WebInv, NEW f \in Forms, IsPlanning(f),
                      NEW v \in Effects(f), NEW w \in Effects(f)
               PROVE  v = w
    BY DEF FormActsOnce
  <2>1. Effects(f) \subseteq Nat
    <3>1. entry[f].date \in Dates
      <4>1. entry[f] \in RegistrationEntry \cup TradingEntry \cup FinishEntry
        BY EntriesAssumption DEF WebInv, EntryInv
      <4> QED
        BY <4>1 DEF IsPlanning, RegistrationEntry, TradingEntry, FinishEntry
    <3>2. planningEvent[entry[f].date] \in Seq(Event)
      BY <3>1 DEF WebInv, ServiceInv, ControlInv, TypeOK
    <3> QED
      BY <3>2 DEF Effects
  <2> QED
    BY <2>1, OneEffect
<1> QED
  BY <1>1, WebInvariant, PTL

\* The exchange only grows, by an event at a time.
LEMMA ExchangeGrows ==
    ASSUME TypeOK, [Next]_vars
    PROVE  exchange' = exchange \/ \E e \in Event : exchange' = Append(exchange, e)
<1>1. ASSUME NEW r \in Requests, PublishEvent(r)
      PROVE  \E e \in Event : exchange' = Append(exchange, e)
  <2>1. pending[r] \in Seq(Event) /\ pending[r] # << >>
    BY <1>1 DEF TypeOK, PublishEvent
  <2>2. Head(pending[r]) \in Event
    BY <2>1
  <2> QED
    BY <1>1, <2>2 DEF PublishEvent
<1>2. ASSUME NEW r \in Requests, Step(r) \/ Fail(r), ~PublishEvent(r)
      PROVE  exchange' = exchange
  BY <1>2 DEF Step, Fail, LoadPlanning, MissPlanning, LoadEvents, HandleCommand,
       RejectCommand, SelectPlanning, UpdatePlanning, UpdateNothing, InsertPlanning,
       InsertDuplicate, StoreEvents, Respond, tables, inputs
<1> QED
  BY <1>1, <1>2 DEF Next, Finished, vars

\* Whoever was told that a job is planned caused its planning to be announced before
\* any finish of it.
THEOREM FinishesFollowPlans == WebSpec => FinishFollowsPlan
<1>1. WebInv' => EventsSpeak'
  BY WebInvSpeaks, PTL
<1>2. WebInv /\ WebInv' /\ [WebNext]_webVars =>
         [exchange' # exchange =>
             LET e == exchange'[Len(exchange')] IN
             e.type = "TradingFinished" =>
                \/ answer[e.jobId] # "Created"
                \/ \E i \in DOMAIN exchange :
                      exchange[i].type = "TradingPlanned" /\ exchange[i].jobId = e.jobId]_webVars
  <2> DEFINE e == exchange'[Len(exchange')]
             q == e.jobId
  <2> SUFFICES ASSUME WebInv, WebInv', [WebNext]_webVars, exchange' # exchange,
                      e.type = "TradingFinished", answer[q] = "Created"
               PROVE  \E i \in DOMAIN exchange :
                         exchange[i].type = "TradingPlanned" /\ exchange[i].jobId = q
    OBVIOUS
  <2>1. TypeOK /\ TypeOK' /\ Requests = Attempts
    BY RequestsAssumption DEF WebInv, ServiceInv, ControlInv
  <2>2. Len(exchange') \in DOMAIN exchange'
    <3>1. PICK x \in Event : exchange' = Append(exchange, x)
      BY <2>1, WebStepIsStep, ExchangeGrows
    <3> QED
      BY <2>1, <3>1 DEF TypeOK
  <2>3. PICK d \in Dates : \E w \in DOMAIN planningEvent'[d] : planningEvent'[d][w] = e
    BY <2>2 DEF WebInv, ServiceInv, PublicationInv, PublishedIsStored
  <2>4. PICK w \in DOMAIN planningEvent'[d] : planningEvent'[d][w] = e
    BY <2>3
  <2>5. MayFinish(Before(planningEvent'[d], w), e)
    <3>1. Admissible(e, Before(planningEvent'[d], w))
      BY <2>4 DEF WebInv, ServiceInv, EventsAdmissible
    <3> QED
      BY <3>1 DEF Admissible
  <2>6. PICK v \in DOMAIN planningEvent'[d] :
           planningEvent'[d][v].type = "TradingPlanned" /\ planningEvent'[d][v].jobId = q
    BY <2>5 DEF MayFinish, HasJob, Jobs, Before
  <2> DEFINE b == planningEvent'[d][v]
             n == entry'[Form(b.origin)]
  <2>7. b.origin \in Attempts /\ b = Raised(CommandOf(n, b.origin), b.origin)
    BY <1>1, <2>6 DEF EventsSpeak
  <2>8. n.form = "RegisterTrading" /\ b.origin = q
    BY <2>6, <2>7 DEF Raised, CommandOf
  <2>9. entry' = entry /\ command[q] = CommandOf(n, q) /\ q \in Attempts
    <3>1. entry' = entry
      BY EntryFrame DEF WebInv
    <3>2. IsPlanning(Form(q)) /\ Carries(q)
      BY <2>7, <2>8, <3>1 DEF IsPlanning, WebInv, EntryInv
    <3> QED
      BY <2>7, <2>8, <3>1, <3>2 DEF Carries
  <2>10. PICK u \in DOMAIN planningEvent[date[q]] :
            planningEvent[date[q]][u] = Raised(command[q], q)
    BY <2>1, <2>9 DEF WebInv, ServiceInv, RequestInv, SuccessIsStored
  <2>11. /\ Raised(command[q], q).type = "TradingPlanned"
         /\ Raised(command[q], q).jobId = q /\ Raised(command[q], q).origin = q
    BY <2>8, <2>9 DEF Raised, CommandOf
  <2>12. pc[q] = "done" /\ date[q] \in Dates
    BY <2>1, <2>9 DEF WebInv, ServiceInv, PublicationInv, AnsweredWhenDone, TypeOK
  <2>13. \E i \in DOMAIN exchange : exchange[i] = planningEvent[date[q]][u]
    BY <2>1, <2>9, <2>10, <2>11, <2>12
       DEF WebInv, ServiceInv, PublicationInv, DoneIsPublished
  <2> QED
    BY <2>10, <2>11, <2>13
<1> QED
  BY <1>2, WebInvariant, PTL DEF WebSpec, FinishFollowsPlan

-----------------------------------------------------------------------------
(* What the pages say.                                                     *)

\* A run of RegisterTrading that was refused met a conflict.
RefusedByConflict ==
    \A a \in Attempts :
        entry[Form(a)].form = "RegisterTrading" /\ call[a] = "refused"
        => answer[a] = "Conflict"

\* Which of its attempts a form owes its page to, or what they all have met.
IndexInv ==
    \A f \in Forms : page[f] = "Index" =>
        \E a \in Attempts :
            /\ Form(a) = f
            /\ \/ /\ entry[f].form = "RegisterTrading"
                  /\ \/ call[a] = "aborted"
                     \/ call[a] = "returned" /\ answer[a] \notin {"none", "Conflict"}
               \/ ~IsPlanning(f) /\ status[a] = "Created"

NewInv ==
    \A f \in Forms : page[f] = "New" =>
        /\ entry[f].form = "RegisterTrading"
        /\ \A a \in Attempts : Form(a) = f =>
              call[a] \in {"unmade", "aborted", "lost"} \/ answer[a] = "Conflict"

DetailsInv ==
    \A f \in Forms : page[f] = "Details" =>
        /\ entry[f].form = "FinishTrading"
        /\ \E a \in Attempts : Form(a) = f /\ answer[a] = "Ok"

PagesInv == RefusedByConflict /\ IndexInv /\ NewInv /\ DetailsInv

\* An answer that was given stays, and a page and what it owes itself to, too.
LEMMA AnswersStay ==
    ASSUME WebInv, [WebNext]_webVars
    PROVE  /\ \A a \in Attempts :
                 /\ answer[a] # "none" => answer'[a] = answer[a]
                 /\ status[a] # "none" => status'[a] = status[a]
           /\ entry' = entry
<1>1. \A r \in Requests : answer[r] # "none" => answer'[r] = answer[r]
  <2>1. \A r \in Requests : answer[r] # "none" => pc[r] = "done"
    BY DEF WebInv, ServiceInv, PublicationInv, AnsweredWhenDone
  <2> QED
    BY <2>1, WebStepIsStep, StepFrame DEF WebInv, ServiceInv, ControlInv
<1>2. entry' = entry
  BY EntryFrame DEF WebInv
<1>3. \A p \in Posts : status[p] # "none" => status'[p] = status[p]
  BY RegistrationFrame DEF WebInv, RegistrationLasts
<1> QED
  BY <1>1, <1>2, <1>3, RequestsAssumption

LEMMA NextKeepsPages ==
    ASSUME WebInv, PagesInv, [WebNext]_webVars
    PROVE  PagesInv'
<1>1. /\ HelperOK /\ entry' = entry
      /\ \A f \in Forms : IsPlanning(f)' = IsPlanning(f)
      /\ \A a \in Attempts : /\ answer[a] # "none" => answer'[a] = answer[a]
                             /\ status[a] # "none" => status'[a] = status[a]
                             /\ Form(a) \in Forms
                             /\ call[a] \in Thrown \cup {"returned"} => call'[a] = call[a]
      /\ \A f \in Forms :
            page[f] # "none" =>
               /\ page'[f] = page[f]
               /\ \A a \in Attempts : Form(a) = f => call'[a] = call[a]
  BY AnswersStay, FormsFrame, AttemptParts DEF WebInv, IsPlanning
\* A form whose page is shown keeps what its page is owed to.
<1>2. ASSUME NEW f \in Forms, page[f] # "none"
      PROVE  /\ page'[f] = "Index" =>
                  \E a \in Attempts :
                     /\ Form(a) = f
                     /\ \/ /\ entry'[f].form = "RegisterTrading"
                           /\ \/ call'[a] = "aborted"
                              \/ /\ call'[a] = "returned"
                                 /\ answer'[a] \notin {"none", "Conflict"}
                        \/ ~IsPlanning(f)' /\ status'[a] = "Created"
             /\ page'[f] = "New" =>
                  /\ entry'[f].form = "RegisterTrading"
                  /\ \A a \in Attempts : Form(a) = f =>
                        \/ call'[a] \in {"unmade", "aborted", "lost"}
                        \/ answer'[a] = "Conflict"
             /\ page'[f] = "Details" =>
                  /\ entry'[f].form = "FinishTrading"
                  /\ \E a \in Attempts : Form(a) = f /\ answer'[a] = "Ok"
  <2>1. page'[f] = page[f] /\ \A a \in Attempts : Form(a) = f => call'[a] = call[a]
    BY <1>1, <1>2
  <2>2. ASSUME page[f] = "Index"
        PROVE  \E a \in Attempts :
                  /\ Form(a) = f
                  /\ \/ /\ entry'[f].form = "RegisterTrading"
                        /\ \/ call'[a] = "aborted"
                           \/ /\ call'[a] = "returned"
                              /\ answer'[a] \notin {"none", "Conflict"}
                     \/ ~IsPlanning(f)' /\ status'[a] = "Created"
    BY <1>1, <2>1, <2>2 DEF PagesInv, IndexInv
  <2>3. ASSUME page[f] = "New"
        PROVE  /\ entry'[f].form = "RegisterTrading"
               /\ \A a \in Attempts : Form(a) = f =>
                     \/ call'[a] \in {"unmade", "aborted", "lost"}
                     \/ answer'[a] = "Conflict"
    BY <1>1, <2>1, <2>3 DEF PagesInv, NewInv
  <2>4. ASSUME page[f] = "Details"
        PROVE  /\ entry'[f].form = "FinishTrading"
               /\ \E a \in Attempts : Form(a) = f /\ answer'[a] = "Ok"
    BY <1>1, <2>1, <2>4 DEF PagesInv, DetailsInv
  <2> QED
    BY <2>1, <2>2, <2>3, <2>4
<1>3. CASE \A f \in Forms : page[f] = "none" => page'[f] = "none"
  <2>1. CASE ~EndOfRun
    <3>1. \A a \in Attempts : call'[a] = "refused" => call[a] = "refused"
      <4>1. CASE UNCHANGED helperVars
        BY <4>1 DEF helperVars
      <4>2. CASE \E f \in Forms : Submit(f)
        BY <1>1, <4>2 DEF Submit, Execute, HelperOK
      <4>3. CASE \E b \in Attempts : Post(b)
        BY <1>1, <4>3 DEF Post, Send, HelperOK
      <4> QED
        BY <1>1, <2>1, <4>1, <4>2, <4>3, FormSteps
    <3>2. RefusedByConflict'
      BY <1>1, <3>1 DEF PagesInv, RefusedByConflict
    <3> QED
      BY <1>2, <1>3, <3>2 DEF PagesInv, IndexInv, NewInv, DetailsInv
  <2>2. CASE EndOfRun
    <3>1. PICK b \in Attempts, how \in Thrown \cup {"returned"}, p \in Pages :
             /\ Ends(b, how, p) /\ Outcome(b, how, p)
             /\ UNCHANGED <<vars, registrationVars>>
      BY <2>2 DEF EndOfRun
    <3>2. RefusedByConflict'
      BY <1>1, <3>1 DEF PagesInv, RefusedByConflict, Ends, Outcome, vars
    <3> QED
      BY <1>2, <1>3, <3>2 DEF PagesInv, IndexInv, NewInv, DetailsInv
  <2> QED
    BY <2>1, <2>2
<1>4. CASE ~\A f \in Forms : page[f] = "none" => page'[f] = "none"
  <2>1. EndOfRun
    BY <1>1, <1>4, FormSteps DEF helperVars, Submit, Execute, Post, Send
  <2>2. PICK b \in Attempts, how \in Thrown \cup {"returned"}, p \in Pages :
           /\ Ends(b, how, p) /\ Outcome(b, how, p)
           /\ UNCHANGED <<vars, registrationVars>>
    BY <2>1 DEF EndOfRun
  <2> DEFINE g == Form(b)
  <2>3. /\ g \in Forms /\ page'[g] = p /\ page[g] = "none" /\ call'[b] = how
        /\ call[b] \in UnderWay /\ answer' = answer /\ status' = status
        /\ \A f \in Forms \ {g} : page'[f] = page[f]
    BY <1>1, <2>2 DEF Ends, vars, registrationVars
  <2>4. RefusedByConflict'
    BY <1>1, <2>2, <2>3 DEF PagesInv, RefusedByConflict, Ends, Outcome
  <2>5. p = "Index" =>
           \/ /\ entry'[g].form = "RegisterTrading"
              /\ \/ call'[b] = "aborted"
                 \/ call'[b] = "returned" /\ answer'[b] \notin {"none", "Conflict"}
           \/ ~IsPlanning(g)' /\ status'[b] = "Created"
    BY <1>1, <2>2, <2>3 DEF Outcome
  <2>6. p = "Details" => entry'[g].form = "FinishTrading" /\ answer'[b] = "Ok"
    BY <1>1, <2>2, <2>3 DEF Outcome
  <2>7. ASSUME p = "New", NEW a \in Attempts, Form(a) = g
        PROVE  /\ entry'[g].form = "RegisterTrading"
               /\ call'[a] \in {"unmade", "aborted", "lost"} \/ answer'[a] = "Conflict"
    <3>1. entry[g].form = "RegisterTrading" /\ how = "returned" /\ answer[b] = "Conflict"
      BY <2>2, <2>7 DEF Outcome
    <3>2. CASE a = b
      BY <1>1, <2>3, <3>1, <3>2
    <3>3. CASE a # b
      <4>1. /\ a[2] \in 1 .. MaxAttempts /\ b[2] \in 1 .. MaxAttempts
            /\ a = <<g, a[2]>> /\ b = <<g, b[2]>> /\ MaxAttempts \in Nat
        BY <2>7, AttemptParts
      <4>2. a[2] < b[2] \/ a[2] > b[2]
        <5> HIDE DEF g
        <5> QED
          BY <3>3, <4>1
      <4>3. call[a] \in Thrown \/ call[a] = "unmade"
        BY <1>1, <2>3, <4>1, <4>2, UnderWayIsLast
      <4>4. call'[a] = call[a]
        <5>1. HelperOK' /\ page'[g] # "none"
          BY <2>2, <2>3, <2>7 DEF Ends
        <5>2. \A i \in 1 .. MaxAttempts : call'[<<g, i>>] \notin UnderWay
          BY <2>3, <5>1 DEF HelperOK, RunsInTurn
        <5>3. call'[a] \notin UnderWay
          BY <4>1, <5>2
        <5> QED
          BY <2>2, <3>3, <5>3 DEF Ends, UnderWay
      <4> QED
        BY <1>1, <2>3, <2>7, <3>1, <4>3, <4>4 DEF PagesInv, RefusedByConflict, Thrown
    <3> QED
      BY <3>2, <3>3
  <2>8. ASSUME NEW f \in Forms, page[f] = "none", page'[f] # "none" PROVE f = g
    BY <2>3, <2>8
  <2>12. p = "New" => entry'[g].form = "RegisterTrading"
    BY <1>1, <2>2, <2>3 DEF Outcome
  <2> HIDE DEF g
  <2>9. IndexInv'
    BY <1>2, <2>3, <2>5, <2>8 DEF IndexInv, g
  <2>10. NewInv'
    BY <1>2, <2>3, <2>7, <2>8, <2>12 DEF NewInv
  <2>11. DetailsInv'
    BY <1>2, <2>3, <2>6, <2>8 DEF DetailsInv, g
  <2> QED
    BY <2>4, <2>9, <2>10, <2>11 DEF PagesInv
<1> QED
  BY <1>3, <1>4

\* The event of a successful trading attempt is stored and announced.
LEMMA SuccessTook ==
    ASSUME WebInv, NEW a \in Attempts, IsPlanning(Form(a)), answer[a] \in {"Created", "Ok"}
    PROVE  Took(Form(a))
<1> DEFINE f == Form(a)
<1>1. /\ a \in Requests /\ date[a] \in Dates /\ date[a] = entry[f].date /\ pc[a] = "done"
  BY RequestsAssumption
     DEF WebInv, ServiceInv, ControlInv, TypeOK, EntryInv, Carries, PublicationInv,
         AnsweredWhenDone
<1>2. PICK v \in DOMAIN planningEvent[date[a]] :
         planningEvent[date[a]][v] = Raised(command[a], a)
  BY <1>1 DEF WebInv, ServiceInv, RequestInv, SuccessIsStored
<1>3. /\ Raised(command[a], a).origin = a
      /\ Raised(command[a], a).type # "PortfolioPlanningCreated"
  BY DEF Raised
<1>4. \E i \in DOMAIN exchange : exchange[i] = planningEvent[date[a]][v]
  BY <1>1, <1>2, <1>3 DEF WebInv, ServiceInv, PublicationInv, DoneIsPublished
<1>5. v \in Effects(f)
  BY <1>1, <1>2, <1>3 DEF Effects
<1> QED
  BY <1>1, <1>4, <1>5 DEF Took

\* A page of success shows what is stored and announced, unless RegisterTrading has
\* swallowed a status; "Unable to register" shows a form that has planned nothing,
\* unless an answer was lost.
THEOREM PagesSpeakTrue == WebSpec => []PagesTellTheTruth
<1>1. WebInit => PagesInv
  BY AttemptParts DEF WebInit, HelperInit, PagesInv, RefusedByConflict, IndexInv, NewInv,
                      DetailsInv
<1>2. WebInv /\ PagesInv /\ [WebNext]_webVars => PagesInv'
  BY NextKeepsPages
<1>3. WebInv /\ PagesInv => PagesTellTheTruth
  <2> SUFFICES ASSUME WebInv, PagesInv, NEW f \in Forms
               PROVE  /\ page[f] = "Index" /\ entry[f].form = "RegisterTrading" =>
                            Took(f) \/ Swallowed(f)
                      /\ page[f] = "New" => Effects(f) = {} \/ Attempted(f, "lost")
                      /\ page[f] = "Details" => Took(f)
                      /\ page[f] = "Index" /\ ~IsPlanning(f) =>
                            \E a \in rows \cap Announced : Form(a) = f
    BY DEF PagesTellTheTruth
  <2>1. ASSUME page[f] = "Index", entry[f].form = "RegisterTrading"
        PROVE  Took(f) \/ Swallowed(f)
    <3>1. PICK a \in Attempts :
             /\ Form(a) = f
             /\ \/ call[a] = "aborted"
                \/ call[a] = "returned" /\ answer[a] \notin {"none", "Conflict"}
      BY <2>1 DEF PagesInv, IndexInv, IsPlanning
    <3>2. IsPlanning(Form(a)) /\ command[a].type = "PlanTrading" /\ a \in Requests
      <4>1. IsPlanning(Form(a)) /\ Carries(a) /\ entry[Form(a)].form = "RegisterTrading"
        BY <2>1, <3>1 DEF IsPlanning, WebInv, EntryInv
      <4>2. command[a] = CommandOf(entry[Form(a)], a)
        BY <4>1 DEF Carries
      <4> QED
        BY <4>1, <4>2, RequestsAssumption DEF CommandOf
    <3>3. answer[a] \in Answers /\ answer[a] \notin {"NotFound", "Ok"}
      BY <3>2 DEF WebInv, ServiceInv, ControlInv, TypeOK, RequestInv, AnswersFit
    <3>4. CASE call[a] = "aborted" \/ answer[a] \in {"Concurrency", "Failed"}
      BY <3>1, <3>4 DEF Swallowed
    <3>5. CASE answer[a] = "Created"
      BY <3>1, <3>2, <3>5, SuccessTook
    <3> QED
      BY <3>1, <3>3, <3>4, <3>5 DEF Answers
  <2>2. ASSUME page[f] = "New", ~Attempted(f, "lost"), NEW v \in Effects(f)
        PROVE  FALSE
    <3> DEFINE d == entry[f].date
               q == planningEvent[d][v].origin
    <3>1. v \in DOMAIN planningEvent[d] /\ Form(q) = f
      BY DEF Effects
    <3>2. entry[f].form = "RegisterTrading" /\ d \in Dates
      <4>1. entry[f] \in RegistrationEntry \cup TradingEntry \cup FinishEntry
        BY EntriesAssumption DEF WebInv, EntryInv
      <4>2. entry[f].form = "RegisterTrading"
        BY <2>2 DEF PagesInv, NewInv
      <4> QED
        BY <4>1, <4>2 DEF RegistrationEntry, TradingEntry, FinishEntry
    <3>3. q \in Attempts /\ Stored(q)
      <4>1. planningEvent[d][v].type # "PortfolioPlanningCreated"
        BY DEF Effects
      <4> QED
        BY <3>1, <3>2, <4>1, EventOfForm DEF Stored
    <3>4. call[q] \in {"unmade", "aborted"} \/ answer[q] = "Conflict"
      BY <2>2, <3>1, <3>3 DEF PagesInv, NewInv, Attempted
    <3>5. CASE call[q] \in {"unmade", "aborted"}
      BY <3>3, <3>5, RequestsAssumption
         DEF WebInv, ServedInv, IsSent, ServiceInv, PublicationInv, StoredOnlyByCommit
    <3>6. CASE answer[q] = "Conflict"
      BY <3>3, <3>6, RequestsAssumption
         DEF WebInv, ServiceInv, PublicationInv, RefusedLeavesNoTrace
    <3> QED
      BY <3>4, <3>5, <3>6
  <2>3. ASSUME page[f] = "Details" PROVE Took(f)
    BY <2>3, SuccessTook DEF PagesInv, DetailsInv, IsPlanning
  <2>4. ASSUME page[f] = "Index", ~IsPlanning(f)
        PROVE  \E a \in rows \cap Announced : Form(a) = f
    <3>1. PICK a \in Attempts : Form(a) = f /\ status[a] = "Created"
      BY <2>4 DEF PagesInv, IndexInv, IsPlanning
    <3> QED
      BY <3>1, RequestsAssumption DEF WebInv, RegistrationOK
  <2> QED
    BY <2>1, <2>2, <2>3, <2>4
<1> QED
  BY <1>1, <1>2, <1>3, WebInvariant, PTL DEF WebSpec

=============================================================================
