----------------------- MODULE PlanningReplay_proofs -----------------------
(***************************************************************************)
(* Proof that the aggregate rebuilt event by event, as the code computes   *)
(* it, decides every command as the set-based reading of the events does.  *)
(***************************************************************************)
EXTENDS PlanningReplay, PortfolioManagementAPI_proofs

Job == [id : JobIds, ticker : Tickers, planned : Timeslots,
        actual : Timeslots \cup {NoSlot}]

\* FirstOrDefault finds the first job with the id, if there is one.
LEMMA FirstJobIsFirst ==
    ASSUME NEW jobs \in Seq(Job), NEW id
    PROVE  LET first == FirstJob(jobs, id) IN
           \/ first = 0 /\ \A i \in DOMAIN jobs : jobs[i].id # id
           \/ /\ first \in DOMAIN jobs /\ jobs[first].id = id
              /\ \A i \in DOMAIN jobs : jobs[i].id = id => first <= i
<1> DEFINE found == {i \in DOMAIN jobs : jobs[i].id = id}
<1>1. CASE found = {}
  BY <1>1 DEF FirstJob
<1>2. CASE found # {}
  <2>1. found \in SUBSET Nat
    OBVIOUS
  <2>2. \E m \in found : \A k \in found : m <= k
    <3> HIDE DEF found
    <3> QED
      BY <1>2, <2>1, LeastElement
  <2>3. FirstJob(jobs, id) = CHOOSE i \in found : \A k \in found : i <= k
    BY <1>2 DEF FirstJob
  <2>4. /\ FirstJob(jobs, id) \in found
        /\ \A k \in found : FirstJob(jobs, id) <= k
    <3> HIDE DEF found
    <3> QED
      BY <2>2, <2>3
  <2> QED
    BY <2>4
<1> QED
  BY <1>1, <1>2

-----------------------------------------------------------------------------
(* The replay.                                                             *)

\* Replay is what its recursion says: some function gives the list after each
\* of the events.
LEMMA ReplayRecursion ==
    ASSUME NEW events \in Seq(Event)
    PROVE  \E after : /\ after[0] = << >>
                      /\ \A v \in 1 .. Len(events) :
                            after[v] = When(after[v - 1], events[v])
                      /\ Replay(events) = after[Len(events)]
<1> DEFINE Body(f, n) == [v \in 0 .. n |-> IF v = 0 THEN << >>
                                           ELSE When(f[v - 1], events[v])]
           T == {n \in Nat : \E f : f = Body(f, n)}
           N == Len(events)
<1>1. 0 \in T
  <2>1. [v \in 0 .. 0 |-> << >>] = Body([v \in 0 .. 0 |-> << >>], 0)
    OBVIOUS
  <2> QED
    BY <2>1
<1>2. ASSUME NEW n \in Nat, n \in T PROVE n + 1 \in T
  <2>1. PICK f : f = Body(f, n)
    BY <1>2
  <2> DEFINE g == [v \in 0 .. n + 1 |-> IF v = n + 1 THEN When(f[n], events[n + 1])
                                        ELSE f[v]]
  <2>2. ASSUME NEW v \in 0 .. n + 1 PROVE g[v] = Body(g, n + 1)[v]
    <3>1. CASE v = n + 1
      <4>1. n \in 0 .. n + 1 /\ n # n + 1 /\ v - 1 = n /\ v # 0
        BY <3>1
      <4>2. g[n] = f[n]
        BY <4>1
      <4> QED
        BY <3>1, <4>1, <4>2
    <3>2. CASE v = 0
      <4>1. f[0] = << >>
        BY <2>1
      <4> QED
        BY <3>2, <4>1
    <3>3. CASE v # 0 /\ v # n + 1
      <4>1. /\ v \in 0 .. n /\ v - 1 \in 0 .. n /\ v - 1 \in 0 .. n + 1
            /\ v - 1 # n + 1
        BY <3>3
      <4>2. f[v] = When(f[v - 1], events[v])
        BY <2>1, <3>3, <4>1
      <4>3. g[v] = f[v] /\ g[v - 1] = f[v - 1]
        BY <3>3, <4>1
      <4> QED
        BY <3>3, <4>2, <4>3
    <3> QED
      BY <3>1, <3>2, <3>3
  <2>3. g = Body(g, n + 1)
    <3>1. g = [v \in 0 .. n + 1 |-> g[v]]
      OBVIOUS
    <3>2. Body(g, n + 1) = [v \in 0 .. n + 1 |-> Body(g, n + 1)[v]]
      OBVIOUS
    <3> HIDE DEF g, Body
    <3> QED
      BY <2>2, <3>1, <3>2
  <2> HIDE DEF g, Body
  <2> QED
    BY <2>3
<1>3. N \in T
  <2>1. Nat \subseteq T
    <3> HIDE DEF T
    <3> QED
      BY <1>1, <1>2, SetInduction
  <2> QED
    BY <2>1
<1> DEFINE after == CHOOSE f : f = Body(f, N)
<1>4. Replay(events) = after[N]
  BY DEF Replay
<1>5. after = Body(after, N)
  <2> HIDE DEF Body
  <2> QED
    BY <1>3
<1>6. after[0] = << >>
  <2>1. 0 \in 0 .. N /\ Body(after, N)[0] = << >>
    OBVIOUS
  <2> HIDE DEF after, Body
  <2> QED
    BY <1>5, <2>1
<1>7. ASSUME NEW v \in 1 .. N PROVE after[v] = When(after[v - 1], events[v])
  <2>1. v \in 0 .. N /\ v # 0
    OBVIOUS
  <2> HIDE DEF after
  <2>2. Body(after, N)[v] = When(after[v - 1], events[v])
    BY <2>1
  <2> HIDE DEF Body
  <2> QED
    BY <1>5, <2>2
<1> HIDE DEF after
<1> QED
  BY <1>4, <1>6, <1>7

-----------------------------------------------------------------------------
(* The list of entities mirrors the events it was built from.              *)

PlannedUpTo(events, n) == {v \in Jobs(events) : v <= n}

FinishedUpTo(events, n, id) ==
    \E w \in 1 .. n : events[w].type = "TradingFinished" /\ events[w].jobId = id

AdmissibleStream(events) ==
    \A v \in DOMAIN events : Admissible(events[v], Before(events, v))

IsFirst(jobs, i) == \A k \in DOMAIN jobs : jobs[k].id = jobs[i].id => i <= k

\* `at` takes the position of a job to the version of the event that added it.
SameJobs(jobs, events, n, at) ==
    /\ at \in Bijection(DOMAIN jobs, PlannedUpTo(events, n))
    /\ \A i \in DOMAIN jobs : /\ jobs[i].id = events[at[i]].jobId
                              /\ jobs[i].ticker = events[at[i]].ticker
                              /\ jobs[i].planned = events[at[i]].slot

\* A finish is recorded on the first job with its id, and nowhere else.
SameFinishes(jobs, events, n) ==
    \A i \in DOMAIN jobs :
        jobs[i].actual # NoSlot
        <=> IsFirst(jobs, i) /\ FinishedUpTo(events, n, jobs[i].id)

Mirrors(jobs, events, n) ==
    /\ jobs \in Seq(Job)
    /\ \E at : SameJobs(jobs, events, n, at)
    /\ SameFinishes(jobs, events, n)

\* What the rules see of the events before version n.
LEMMA BeforeFacts ==
    ASSUME NEW events \in Seq(Event), NEW n \in DOMAIN events
    PROVE  /\ DOMAIN Before(events, n) = 1 .. n - 1
           /\ \A id : HasJob(Before(events, n), id)
                      <=> \E v \in PlannedUpTo(events, n - 1) : events[v].jobId = id
<1>1. /\ DOMAIN Before(events, n) = {w \in DOMAIN events : w < n}
      /\ \A w \in DOMAIN events : w < n => Before(events, n)[w] = events[w]
  BY DEF Before
<1>2. {w \in DOMAIN events : w < n} = 1 .. n - 1
  OBVIOUS
<1>3. Jobs(Before(events, n)) = PlannedUpTo(events, n - 1)
  BY <1>1, <1>2 DEF Jobs, PlannedUpTo
<1>4. \A v \in PlannedUpTo(events, n - 1) : Before(events, n)[v] = events[v]
  BY <1>1, <1>2 DEF Jobs, PlannedUpTo
<1> QED
  BY <1>1, <1>2, <1>3, <1>4 DEF HasJob

\* The three kinds of event, and what the rules say of each.
LEMMA EventCases ==
    ASSUME NEW events \in Seq(Event), AdmissibleStream(events),
           NEW n \in DOMAIN events
    PROVE  \/ events[n].type = "PortfolioPlanningCreated" /\ n = 1
           \/ events[n] \in TradingPlanned /\ events[n].type = "TradingPlanned"
           \/ /\ events[n] \in TradingFinished /\ events[n].type = "TradingFinished"
              /\ \E v \in PlannedUpTo(events, n - 1) :
                    events[v].jobId = events[n].jobId
<1>1. events[n] \in Event /\ Admissible(events[n], Before(events, n))
  BY DEF AdmissibleStream
<1>2. CASE events[n] \in PlanningCreated
  <2>1. DOMAIN Before(events, n) = {}
    BY <1>1, <1>2 DEF PlanningCreated, Admissible
  <2>2. 1 .. n - 1 = {}
    BY <2>1, BeforeFacts
  <2>3. n = 1
    <3>1. n \in Nat \ {0}
      OBVIOUS
    <3>2. 1 \notin 1 .. n - 1
      BY <2>2
    <3> QED
      BY <3>1, <3>2
  <2> QED
    BY <1>2, <2>3 DEF PlanningCreated
<1>3. CASE events[n] \in TradingPlanned
  BY <1>3 DEF TradingPlanned
<1>4. CASE events[n] \in TradingFinished
  <2>1. HasJob(Before(events, n), events[n].jobId)
    BY <1>1, <1>4 DEF TradingFinished, Admissible, MayFinish
  <2>2. \E v \in PlannedUpTo(events, n - 1) : events[v].jobId = events[n].jobId
    <3>1. \A id : HasJob(Before(events, n), id)
                  => \E v \in PlannedUpTo(events, n - 1) : events[v].jobId = id
      BY BeforeFacts
    <3> QED
      BY <2>1, <3>1
  <2> QED
    BY <1>4, <2>2 DEF TradingFinished
<1> QED
  BY <1>1, <1>2, <1>3, <1>4 DEF Event

\* No job planned so far: the empty list, of a planning just created.
LEMMA EmptyMirrors ==
    ASSUME NEW events \in Seq(Event), NEW n, PlannedUpTo(events, n) = {}
    PROVE  Mirrors(<< >>, events, n)
<1>1. SameJobs(<< >>, events, n, << >>)
  BY DEF SameJobs, Bijection, Injection, Surjection, IsInjective
<1> QED
  BY <1>1 DEF Mirrors, SameFinishes

\* The typed parts of an event.
LEMMA EventParts ==
    /\ \A e \in TradingPlanned : /\ e.jobId \in JobIds /\ e.ticker \in Tickers
                                 /\ e.slot \in Timeslots
    /\ \A e \in TradingFinished : e.jobId \in JobIds /\ e.slot \in Timeslots
BY DEF TradingPlanned, TradingFinished

\* A planned job is added at the end: the one new position is the one new
\* version, and no finish can have come before it.
LEMMA PlanMirrors ==
    ASSUME NEW events \in Seq(Event), AdmissibleStream(events),
           NEW n \in DOMAIN events, events[n] \in TradingPlanned,
           events[n].type = "TradingPlanned",
           NEW jobs, Mirrors(jobs, events, n - 1)
    PROVE  Mirrors(When(jobs, events[n]), events, n)
<1> DEFINE e == events[n]
           new == Append(jobs, Planned(e))
           N == Len(jobs)
<1>1. When(jobs, e) = new
  BY DEF When
<1>2. /\ jobs \in Seq(Job) /\ N \in Nat /\ DOMAIN jobs = 1 .. N
      /\ n \in Nat \ {0} /\ n - 1 \in Nat
  BY DEF Mirrors
<1>3. Planned(e) \in Job
  BY EventParts DEF Planned, Job
<1>4. /\ new \in Seq(Job) /\ DOMAIN new = 1 .. N + 1
      /\ new[N + 1] = Planned(e)
      /\ \A i \in 1 .. N : new[i] = jobs[i]
  BY <1>2, <1>3
<1>5. PICK at : SameJobs(jobs, events, n - 1, at)
  BY DEF Mirrors
<1>6. /\ at \in [1 .. N -> PlannedUpTo(events, n - 1)]
      /\ \A i, k \in 1 .. N : at[i] = at[k] => i = k
      /\ \A v \in PlannedUpTo(events, n - 1) : \E i \in 1 .. N : at[i] = v
  BY <1>2, <1>5 DEF SameJobs, Bijection, Injection, Surjection, IsInjective
<1>7. /\ PlannedUpTo(events, n) = PlannedUpTo(events, n - 1) \cup {n}
      /\ n \notin PlannedUpTo(events, n - 1)
  BY <1>2 DEF PlannedUpTo, Jobs
<1> DEFINE at2 == [i \in 1 .. N + 1 |-> IF i = N + 1 THEN n ELSE at[i]]
<1>8. SameJobs(new, events, n, at2)
  <2>1. /\ \A i \in 1 .. N : at2[i] = at[i] /\ at[i] # n
        /\ at2[N + 1] = n
    BY <1>2, <1>6, <1>7
  <2>2. at2 \in [1 .. N + 1 -> PlannedUpTo(events, n)]
    BY <1>6, <1>7
  <2>3. \A i, k \in 1 .. N + 1 : at2[i] = at2[k] => i = k
    <3>1. \A i \in 1 .. N + 1 : i \in 1 .. N \/ i = N + 1
      BY <1>2
    <3> HIDE DEF at2
    <3> QED
      BY <1>6, <2>1, <3>1
  <2>4. \A v \in PlannedUpTo(events, n) : \E i \in 1 .. N + 1 : at2[i] = v
    <3> SUFFICES ASSUME NEW v \in PlannedUpTo(events, n)
                 PROVE  \E i \in 1 .. N + 1 : at2[i] = v
      OBVIOUS
    <3>1. CASE v = n
      BY <1>2, <2>1, <3>1
    <3>2. CASE v \in PlannedUpTo(events, n - 1)
      <4>1. PICK i \in 1 .. N : at[i] = v
        BY <1>6, <3>2
      <4> QED
        BY <1>2, <2>1, <4>1
    <3> QED
      BY <1>7, <3>1, <3>2
  <2>5. ASSUME NEW i \in 1 .. N + 1
        PROVE  /\ new[i].id = events[at2[i]].jobId
               /\ new[i].ticker = events[at2[i]].ticker
               /\ new[i].planned = events[at2[i]].slot
    <3>1. CASE i = N + 1
      BY <1>4, <2>1, <3>1 DEF Planned
    <3>2. CASE i \in 1 .. N
      BY <1>2, <1>4, <1>5, <2>1, <3>2 DEF SameJobs
    <3> QED
      BY <1>2, <3>1, <3>2
  <2> HIDE DEF at2, new
  <2> QED
    BY <1>4, <2>2, <2>3, <2>4, <2>5
       DEF SameJobs, Bijection, Injection, Surjection, IsInjective
<1>9. \A id : FinishedUpTo(events, n, id) <=> FinishedUpTo(events, n - 1, id)
  BY <1>2 DEF FinishedUpTo
<1>10. SameFinishes(new, events, n)
  <2> SUFFICES ASSUME NEW i \in 1 .. N + 1
               PROVE  new[i].actual # NoSlot
                      <=> IsFirst(new, i) /\ FinishedUpTo(events, n, new[i].id)
    BY <1>4 DEF SameFinishes
  <2>1. CASE i \in 1 .. N
    <3>1. new[i] = jobs[i]
      BY <1>4, <2>1
    <3>2. IsFirst(new, i) <=> IsFirst(jobs, i)
      BY <1>2, <1>4, <2>1 DEF IsFirst
    <3>3. jobs[i].actual # NoSlot
          <=> IsFirst(jobs, i) /\ FinishedUpTo(events, n - 1, jobs[i].id)
      BY <1>2, <2>1 DEF Mirrors, SameFinishes
    <3> QED
      BY <1>9, <3>1, <3>2, <3>3
  <2>2. CASE i = N + 1
    <3>1. new[i].actual = NoSlot /\ new[i].id = e.jobId
      BY <1>4, <2>2 DEF Planned
    <3>2. ASSUME IsFirst(new, i), FinishedUpTo(events, n - 1, e.jobId) PROVE FALSE
      <4>1. PICK w \in 1 .. n - 1 : /\ events[w].type = "TradingFinished"
                                     /\ events[w].jobId = e.jobId
        BY <3>2 DEF FinishedUpTo
      <4>2. w \in DOMAIN events
        BY <1>2, <4>1
      <4>3. \E v \in PlannedUpTo(events, w - 1) : events[v].jobId = e.jobId
        BY <4>1, <4>2, EventCases DEF TradingPlanned
      <4>4. PlannedUpTo(events, w - 1) \subseteq PlannedUpTo(events, n - 1)
        BY <1>2, <4>1 DEF PlannedUpTo, Jobs
      <4>5. PICK k \in 1 .. N : events[at[k]].jobId = e.jobId
        BY <1>6, <4>3, <4>4
      <4>6. new[k].id = e.jobId /\ k \in DOMAIN new
        BY <1>2, <1>4, <1>5, <4>5 DEF SameJobs
      <4>7. N + 1 <= k
        BY <2>2, <3>1, <3>2, <4>6 DEF IsFirst
      <4> QED
        BY <1>2, <4>5, <4>7
    <3> QED
      BY <1>9, <3>1, <3>2
  <2> QED
    BY <1>2, <2>1, <2>2
<1> QED
  BY <1>1, <1>4, <1>8, <1>10 DEF Mirrors

\* A finish completes the first job with its id.
LEMMA FinishMirrors ==
    ASSUME NEW events \in Seq(Event), AdmissibleStream(events),
           NEW n \in DOMAIN events, events[n] \in TradingFinished,
           events[n].type = "TradingFinished",
           \E v \in PlannedUpTo(events, n - 1) : events[v].jobId = events[n].jobId,
           NEW jobs, Mirrors(jobs, events, n - 1)
    PROVE  Mirrors(When(jobs, events[n]), events, n)
<1> DEFINE e == events[n]
           first == FirstJob(jobs, e.jobId)
           new == [jobs EXCEPT ![first].actual = e.slot]
<1>1. When(jobs, e) = new
  BY DEF When
<1>2. /\ jobs \in Seq(Job) /\ n \in Nat \ {0} /\ n - 1 \in Nat
  BY DEF Mirrors
<1>3. PICK at : SameJobs(jobs, events, n - 1, at)
  BY DEF Mirrors
<1>4. \E i \in DOMAIN jobs : jobs[i].id = e.jobId
  BY <1>3 DEF SameJobs, Bijection, Surjection
<1>5. /\ first \in DOMAIN jobs /\ jobs[first].id = e.jobId
      /\ \A i \in DOMAIN jobs : jobs[i].id = e.jobId => first <= i
  <2> HIDE DEF e
  <2> QED
    BY <1>2, <1>4, FirstJobIsFirst
<1>6. e.slot \in Timeslots /\ e.slot # NoSlot
  BY EventParts, NoSlotAssumption
<1> HIDE DEF first, e
<1>7. /\ new \in Seq(Job) /\ DOMAIN new = DOMAIN jobs
      /\ \A i \in DOMAIN jobs : /\ new[i].id = jobs[i].id
                                /\ new[i].ticker = jobs[i].ticker
                                /\ new[i].planned = jobs[i].planned
                                /\ i # first => new[i].actual = jobs[i].actual
      /\ new[first].actual = e.slot
  <2> DEFINE done == [jobs[first] EXCEPT !.actual = e.slot]
  <2>1. /\ done \in Job /\ done.id = jobs[first].id
        /\ done.ticker = jobs[first].ticker /\ done.planned = jobs[first].planned
        /\ done.actual = e.slot
    <3>1. \A job \in Job, s \in Timeslots :
             LET next == [job EXCEPT !.actual = s] IN
             /\ next \in Job /\ next.id = job.id /\ next.ticker = job.ticker
             /\ next.planned = job.planned /\ next.actual = s
      BY DEF Job
    <3>2. jobs[first] \in Job
      BY <1>2, <1>5
    <3> QED
      BY <1>6, <3>1, <3>2
  <2>2. new = [jobs EXCEPT ![first] = done]
    OBVIOUS
  <2> HIDE DEF done, new
  <2>3. /\ new \in Seq(Job) /\ DOMAIN new = DOMAIN jobs
        /\ new[first] = done
        /\ \A i \in DOMAIN jobs : i # first => new[i] = jobs[i]
    BY <1>2, <1>5, <2>1, <2>2
  <2> QED
    BY <2>1, <2>3
<1> HIDE DEF new
<1>8. PlannedUpTo(events, n) = PlannedUpTo(events, n - 1)
  BY <1>2 DEF PlannedUpTo, Jobs
<1>9. SameJobs(new, events, n, at)
  BY <1>3, <1>7, <1>8 DEF SameJobs
<1>10. \A id : FinishedUpTo(events, n, id)
               <=> FinishedUpTo(events, n - 1, id) \/ id = e.jobId
  <2>1. \A w : w \in 1 .. n <=> w \in 1 .. n - 1 \/ w = n
    BY <1>2
  <2>2. e.type = "TradingFinished" /\ e = events[n]
    BY DEF e
  <2> QED
    BY <2>1, <2>2 DEF FinishedUpTo
<1>11. SameFinishes(new, events, n)
  <2> SUFFICES ASSUME NEW i \in DOMAIN jobs
               PROVE  new[i].actual # NoSlot
                      <=> IsFirst(new, i) /\ FinishedUpTo(events, n, new[i].id)
    BY <1>7 DEF SameFinishes
  <2>1. /\ IsFirst(new, i) <=> IsFirst(jobs, i)
        /\ new[i].id = jobs[i].id
    BY <1>7 DEF IsFirst
  <2>2. CASE i = first
    BY <1>5, <1>6, <1>7, <1>10, <2>1, <2>2 DEF IsFirst
  <2>3. CASE i # first
    <3>1. IsFirst(jobs, i) => jobs[i].id # e.jobId
      BY <1>2, <1>5, <2>3 DEF IsFirst
    <3>2. jobs[i].actual # NoSlot
          <=> IsFirst(jobs, i) /\ FinishedUpTo(events, n - 1, jobs[i].id)
      BY DEF Mirrors, SameFinishes
    <3> QED
      BY <1>7, <1>10, <2>1, <2>3, <3>1, <3>2
  <2> QED
    BY <2>2, <2>3
<1> QED
  BY <1>1, <1>7, <1>9, <1>11 DEF Mirrors, e

LEMMA ReplayMirrors ==
    ASSUME NEW events \in Seq(Event), AdmissibleStream(events)
    PROVE  Mirrors(Replay(events), events, Len(events))
<1> DEFINE N == Len(events)
<1>1. PICK after : /\ after[0] = << >>
                   /\ \A v \in 1 .. N : after[v] = When(after[v - 1], events[v])
                   /\ Replay(events) = after[N]
  BY ReplayRecursion
<1> DEFINE T == {n \in Nat : n <= N => Mirrors(after[n], events, n)}
<1>2. 0 \in T
  <2>1. PlannedUpTo(events, 0) = {}
    BY DEF PlannedUpTo, Jobs
  <2> QED
    BY <1>1, <2>1, EmptyMirrors
<1>3. ASSUME NEW n \in Nat, n \in T PROVE n + 1 \in T
  <2> SUFFICES ASSUME n + 1 <= N PROVE Mirrors(after[n + 1], events, n + 1)
    OBVIOUS
  <2> DEFINE v == n + 1
  <2>1. /\ v \in DOMAIN events /\ v \in 1 .. N /\ v - 1 = n /\ n <= N
    OBVIOUS
  <2>2. after[v] = When(after[n], events[v])
    BY <1>1, <2>1
  <2>3. Mirrors(after[n], events, v - 1)
    BY <1>3, <2>1
  <2> HIDE DEF v
  <2>4. CASE events[v].type = "PortfolioPlanningCreated" /\ v = 1
    <3>1. PlannedUpTo(events, v) = {}
      BY <2>4 DEF PlannedUpTo, Jobs
    <3>2. When(after[n], events[v]) = << >>
      BY <2>4 DEF When
    <3> QED
      BY <2>2, <3>1, <3>2, EmptyMirrors DEF v
  <2>5. CASE events[v] \in TradingPlanned /\ events[v].type = "TradingPlanned"
    <3>1. Mirrors(When(after[n], events[v]), events, v)
      BY <2>1, <2>3, <2>5, PlanMirrors
    <3> QED
      BY <2>2, <3>1 DEF v
  <2>6. CASE /\ events[v] \in TradingFinished /\ events[v].type = "TradingFinished"
             /\ \E u \in PlannedUpTo(events, v - 1) :
                   events[u].jobId = events[v].jobId
    <3>1. Mirrors(When(after[n], events[v]), events, v)
      BY <2>1, <2>3, <2>6, FinishMirrors
    <3> QED
      BY <2>2, <3>1 DEF v
  <2> QED
    BY <2>1, <2>4, <2>5, <2>6, EventCases
<1>4. N \in T
  <2>1. Nat \subseteq T
    <3> HIDE DEF T
    <3> QED
      BY <1>2, <1>3, SetInduction
  <2> QED
    BY <2>1
<1> QED
  BY <1>1, <1>4

-----------------------------------------------------------------------------
(* The decisions.                                                          *)

\* The rule over the list counts as many jobs as the rule over the events.
LEMMA OverlappingCount ==
    ASSUME NEW events \in Seq(Event), NEW jobs \in Seq(Job), NEW at,
           SameJobs(jobs, events, Len(events), at), NEW slot
    PROVE  /\ Cardinality(Overlapping(jobs, slot)) \in Nat
           /\ Cardinality(ParallelJobs(events, slot))
              = Cardinality(Overlapping(jobs, slot))
<1> DEFINE S == Overlapping(jobs, slot)
           P == ParallelJobs(events, slot)
           f == [i \in S |-> at[i]]
<1>1. PlannedUpTo(events, Len(events)) = Jobs(events)
  BY DEF PlannedUpTo, Jobs
<1>2. /\ at \in [DOMAIN jobs -> Jobs(events)]
      /\ \A i, k \in DOMAIN jobs : at[i] = at[k] => i = k
      /\ \A v \in Jobs(events) : \E i \in DOMAIN jobs : at[i] = v
      /\ \A i \in DOMAIN jobs : jobs[i].planned = events[at[i]].slot
  BY <1>1 DEF SameJobs, Bijection, Injection, Surjection, IsInjective
<1>3. IsFiniteSet(S) /\ S \subseteq DOMAIN jobs
  <2>1. S \in SUBSET (1 .. Len(jobs)) /\ Len(jobs) \in Int /\ 1 \in Int
    BY DEF Overlapping
  <2> HIDE DEF S
  <2>2. IsFiniteSet(1 .. Len(jobs))
    BY <2>1, FS_Interval
  <2>3. IsFiniteSet(S)
    BY <2>1, <2>2, FS_Subset
  <2> QED
    BY <2>1, <2>3
<1>4. f \in Bijection(S, P)
  <2>1. f \in [S -> P]
    <3>1. \A i \in S : at[i] \in P
      BY <1>2 DEF Overlapping, ParallelJobs
    <3> HIDE DEF S, P
    <3> QED
      BY <3>1
  <2>2. \A i, k \in S : f[i] = f[k] => i = k
    BY <1>2, <1>3
  <2>3. \A v \in P : \E i \in S : f[i] = v
    BY <1>2 DEF Overlapping, ParallelJobs
  <2> HIDE DEF f, S, P
  <2> QED
    BY <2>1, <2>2, <2>3 DEF Bijection, Injection, Surjection, IsInjective
<1>5. Cardinality(P) = Cardinality(S) /\ Cardinality(S) \in Nat
  <2> HIDE DEF f, S, P
  <2>1. ExistsBijection(S, P)
    BY <1>4 DEF ExistsBijection
  <2> QED
    BY <1>3, <2>1, FS_Bijection, FS_CardinalityType
<1> QED
  BY <1>5

\* On events that obeyed the rules, the replayed list decides every command
\* as the events do.
LEMMA ReplayDecides ==
    ASSUME NEW events \in Seq(Event), AdmissibleStream(events), NEW c \in Command
    PROVE  MayHandle(events, c) <=> Raises(Replay(events), c)
<1> DEFINE jobs == Replay(events)
           N == Len(events)
<1>1. Mirrors(jobs, events, N)
  BY ReplayMirrors
<1> HIDE DEF jobs
<1>2. jobs \in Seq(Job)
  BY <1>1 DEF Mirrors
<1>3. PICK at : SameJobs(jobs, events, N, at)
  BY <1>1 DEF Mirrors
<1>4. PlannedUpTo(events, N) = Jobs(events)
  BY DEF PlannedUpTo, Jobs
<1>5. /\ at \in [DOMAIN jobs -> Jobs(events)]
      /\ \A v \in Jobs(events) : \E i \in DOMAIN jobs : at[i] = v
      /\ \A i \in DOMAIN jobs : /\ jobs[i].id = events[at[i]].jobId
                                /\ jobs[i].ticker = events[at[i]].ticker
                                /\ jobs[i].planned = events[at[i]].slot
  BY <1>3, <1>4 DEF SameJobs, Bijection, Injection, Surjection
<1>6. CASE c.type = "PlanTrading"
  <2>1. WorkstationLeft(events, c.slot)
        <=> ~(Cardinality(Overlapping(jobs, c.slot)) >= AvailableWorkstations)
    BY <1>2, <1>3, OverlappingCount, WorkstationsAssumption DEF WorkstationLeft
  <2>2. StockIsFree(events, c.ticker, c.slot)
        <=> ~\E i \in Overlapping(jobs, c.slot) : jobs[i].ticker = c.ticker
    BY <1>5 DEF StockIsFree, JobsOn, Overlapping
  <2> QED
    BY <1>6, <2>1, <2>2 DEF MayHandle, MayPlan, Raises, PlanTradingRaises, jobs
<1>7. CASE c.type # "PlanTrading"
  <2> DEFINE first == FirstJob(jobs, c.jobId)
  <2>1. \/ first = 0 /\ \A i \in DOMAIN jobs : jobs[i].id # c.jobId
        \/ /\ first \in DOMAIN jobs /\ jobs[first].id = c.jobId
           /\ \A i \in DOMAIN jobs : jobs[i].id = c.jobId => first <= i
    BY <1>2, FirstJobIsFirst
  <2> HIDE DEF first
  <2>2. HasJob(events, c.jobId) <=> first # 0
    <3>1. 0 \notin DOMAIN jobs
      BY <1>2
    <3> QED
      BY <1>5, <2>1, <3>1 DEF HasJob
  <2>3. ASSUME first # 0
        PROVE  Status(jobs[first]) # "Completed" <=> ~IsCompleted(events, c.jobId)
    <3>1. jobs[first].actual # NoSlot
          <=> IsFirst(jobs, first) /\ FinishedUpTo(events, N, jobs[first].id)
      BY <1>1, <2>1, <2>3 DEF Mirrors, SameFinishes
    <3>2. IsFirst(jobs, first) /\ jobs[first].id = c.jobId
      BY <2>1, <2>3 DEF IsFirst
    <3>3. FinishedUpTo(events, N, c.jobId) <=> IsCompleted(events, c.jobId)
      BY DEF FinishedUpTo, IsCompleted
    <3> QED
      BY <3>1, <3>2, <3>3 DEF Status
  <2> QED
    BY <1>7, <2>2, <2>3
       DEF MayHandle, MayFinish, Raises, FinishTradingRaises, jobs, first
<1> QED
  BY <1>6, <1>7

\* What the service decides on the stored events is what the code decides on
\* the entities it rebuilds from them, for every number of jobs and finishes.
THEOREM ReplayDecidesAlike == Spec => []ReplayAgrees
<1>1. TypeOK /\ EventsAdmissible => ReplayAgrees
  <2> SUFFICES ASSUME TypeOK, EventsAdmissible, NEW d \in Dates, NEW c \in Commands
               PROVE  MayHandle(planningEvent[d], c)
                      <=> Raises(Replay(planningEvent[d]), c)
    BY DEF ReplayAgrees
  <2>1. planningEvent[d] \in Seq(Event) /\ c \in Command
    BY CommandsAssumption DEF TypeOK
  <2>2. AdmissibleStream(planningEvent[d])
    BY DEF EventsAdmissible, AdmissibleStream
  <2> QED
    BY <2>1, <2>2, ReplayDecides
<1> QED
  BY <1>1, TypeCorrect, RulesHoldOfTheStore, PTL

\* The events a request decides on, old as they may be, are decided alike too.
THEOREM HandlersDecideAlike ==
    Spec => [](\A r \in Requests :
                  MayHandle(loaded[r], command[r])
                  <=> Raises(Replay(loaded[r]), command[r]))
<1>1. ControlInv /\ EventsAdmissible
      => \A r \in Requests : MayHandle(loaded[r], command[r])
                             <=> Raises(Replay(loaded[r]), command[r])
  <2> SUFFICES ASSUME ControlInv, EventsAdmissible, NEW r \in Requests
               PROVE  MayHandle(loaded[r], command[r])
                      <=> Raises(Replay(loaded[r]), command[r])
    OBVIOUS
  <2> DEFINE old == loaded[r]
             all == planningEvent[date[r]]
  <2>1. /\ old \in Seq(Event) /\ all \in Seq(Event) /\ date[r] \in Dates
        /\ command[r] \in Command
    BY CommandsAssumption DEF ControlInv, TypeOK
  <2>2. Len(old) <= Len(all) /\ \A v \in 1 .. Len(old) : old[v] = all[v]
    BY DEF ControlInv, LoadedIsPrefix
  <2>3. AdmissibleStream(all)
    BY <2>1 DEF EventsAdmissible, AdmissibleStream
  <2> HIDE DEF old, all
  <2>4. ASSUME NEW v \in DOMAIN old
        PROVE  Admissible(old[v], Before(old, v))
    <3>1. v \in DOMAIN all /\ old[v] = all[v]
      BY <2>1, <2>2
    <3>2. {w \in DOMAIN old : w < v} = {w \in DOMAIN all : w < v}
      BY <2>1, <2>2
    <3>3. \A w \in {w \in DOMAIN old : w < v} : old[w] = all[w]
      BY <2>1, <2>2
    <3>4. Before(old, v) = Before(all, v)
      BY <3>2, <3>3 DEF Before
    <3> QED
      BY <2>3, <3>1, <3>4 DEF AdmissibleStream
  <2>5. AdmissibleStream(old)
    BY <2>4 DEF AdmissibleStream
  <2> QED
    BY <2>1, <2>5, ReplayDecides DEF old
<1>2. Spec => []ControlInv
  BY InitControl, NextKeepsControl, PTL DEF Spec
<1> QED
  BY <1>1, <1>2, RulesHoldOfTheStore, PTL

=============================================================================
