------------------- MODULE PortfolioManagementAPI_proofs -------------------
(***************************************************************************)
(* Proofs about PortfolioManagementAPI, for every number of requests,      *)
(* dates, jobs, stocks and workstations.                                   *)
(***************************************************************************)
EXTENDS PortfolioManagementAPI, FiniteSetTheorems, SequenceTheorems, TLAPS

(***************************************************************************)
(* The inductive invariant.  EventsAdmissible and the others are not       *)
(* inductive alone: a commit preserves them only because the committing    *)
(* request has loaded exactly the stored events, and that follows from the *)
(* version check, the row lock and the shape of what was loaded.           *)
(***************************************************************************)

\* What a request has loaded is a prefix of what is stored, however old.
LoadedIsPrefix ==
    \A r \in Requests :
        /\ Len(loaded[r]) <= Len(planningEvent[date[r]])
        /\ \A v \in 1 .. Len(loaded[r]) :
              loaded[r][v] = planningEvent[date[r]][v]

\* Until the commit, a request saves what its aggregate raised.
SavesWhatItRaised ==
    \A r \in Requests :
        pc[r] \in {"save", "update", "insert", "store"} =>
            /\ MayHandle(loaded[r], command[r])
            /\ pending[r] = NewEvents(loaded[r], command[r], r)

RowFoundStays ==
    \A r \in Requests : pc[r] = "update" => date[r] \in DOMAIN planning

\* A request about to commit holds the row, and has loaded everything.
CommitterIsUpToDate ==
    \A r \in Requests :
        pc[r] = "store" => /\ lock[date[r]] = r
                           /\ Len(loaded[r]) = Len(planningEvent[date[r]])

StoredOnlyByCommit ==
    \A r \in Requests :
        pc[r] \in {"load", "replay", "handle", "save", "update", "insert", "store"}
        => ~Stored(r)

AnsweredWhenDone ==
    \A r \in Requests : answer[r] # "none" => pc[r] = "done"

\* After the commit, the events of a request are published or pending.
PublishesWhatItStored ==
    \A r \in Requests :
        pc[r] = "publish" =>
            /\ \A i \in DOMAIN pending[r] :
                  \E d \in Dates : \E v \in DOMAIN planningEvent[d] :
                      planningEvent[d][v] = pending[r][i]
            /\ \A d \in Dates : \A v \in DOMAIN planningEvent[d] :
                  planningEvent[d][v].origin = r
                  => \/ \E i \in DOMAIN exchange : exchange[i] = planningEvent[d][v]
                     \/ \E i \in DOMAIN pending[r] :
                            pending[r][i] = planningEvent[d][v]

DoneIsPublished ==
    \A r \in Requests :
        pc[r] = "done" /\ answer[r] # "Failed" =>
            \A d \in Dates : \A v \in DOMAIN planningEvent[d] :
                planningEvent[d][v].origin = r
                => \E i \in DOMAIN exchange : exchange[i] = planningEvent[d][v]

DoneIsAnswered ==
    \A r \in Requests : pc[r] = "done" => answer[r] # "none"

ControlInv == /\ TypeOK
              /\ VersionCountsEvents
              /\ LoadedIsPrefix
              /\ SavesWhatItRaised
              /\ RowFoundStays
              /\ CommitterIsUpToDate

-----------------------------------------------------------------------------
(* Induction over the natural numbers, with the predicate as a set.        *)

LEMMA SetInduction ==
    ASSUME NEW S, 0 \in S, \A n \in Nat : n \in S => n + 1 \in S
    PROVE  Nat \subseteq S
<1> SUFFICES ASSUME NEW n \in Nat, n \notin S PROVE FALSE
  OBVIOUS
<1> DEFINE U == 0 .. n
           T == {0 .. m : m \in U \ S}
           R == StrictSubsetOrdering(U)
<1>1. IsFiniteSet(U)
  BY FS_Interval
<1>2. IsWellFoundedOn(R, SUBSET U)
  BY <1>1, FS_StrictSubsetOrderingWellFounded, FS_FiniteSubsetsOfFinite
<1>3. T \subseteq SUBSET U /\ T # {}
  OBVIOUS
<1>4. PICK x \in T : \A y \in T : <<y, x>> \notin R
  <2> HIDE DEF T, R, U
  <2> QED
    BY <1>2, <1>3, WFMin
<1>5. PICK m \in U \ S : x = 0 .. m
  BY <1>4
<1>6. m # 0 /\ m - 1 \in U /\ m - 1 \in Nat /\ (m - 1) + 1 = m
  BY <1>5
<1>7. m - 1 \notin S
  BY <1>5, <1>6
<1>8. 0 .. (m - 1) \in T
  BY <1>6, <1>7
<1>9. <<0 .. (m - 1), x>> \in R
  BY <1>5, <1>6 DEF StrictSubsetOrdering
<1> QED
  BY <1>4, <1>8, <1>9

\* A set of natural numbers that is not empty has a least element.
LEMMA LeastElement ==
    ASSUME NEW S \in SUBSET Nat, S # {}
    PROVE  \E m \in S : \A k \in S : m <= k
<1> SUFFICES ASSUME \A m \in S : \E k \in S : ~(m <= k) PROVE FALSE
  OBVIOUS
<1> DEFINE T == {n \in Nat : \A k \in S : n < k}
<1>0. PICK x \in S : TRUE
  OBVIOUS
<1>1. 0 \in T
  OBVIOUS
<1>2. ASSUME NEW n \in Nat, n \in T PROVE n + 1 \in T
  <2>1. n + 1 \notin S
    <3> SUFFICES ASSUME n + 1 \in S PROVE FALSE
      OBVIOUS
    <3>1. PICK k \in S : ~(n + 1 <= k)
      OBVIOUS
    <3> QED
      BY <1>2, <3>1
  <2> QED
    BY <1>2, <2>1
<1>3. Nat \subseteq T
  <2> HIDE DEF T
  <2> QED
    BY <1>1, <1>2, SetInduction
<1>4. x \in Nat /\ x \in T
  BY <1>0, <1>3
<1> QED
  BY <1>0, <1>4

\* A set of natural numbers that is bounded and not empty has a greatest one.
LEMMA GreatestElement ==
    ASSUME NEW S \in SUBSET Nat, S # {}, NEW n \in Nat, \A k \in S : k <= n
    PROVE  \E m \in S : \A k \in S : k <= m
<1> DEFINE T == {n - k : k \in S}
<1>1. T \in SUBSET Nat /\ T # {}
  <2>1. \A k \in S : k \in Nat /\ n - k \in Nat
    OBVIOUS
  <2> QED
    BY <2>1
<1>2. PICK x \in T : \A y \in T : x <= y
  <2> HIDE DEF T
  <2> QED
    BY <1>1, LeastElement
<1>3. PICK m \in S : x = n - m
  BY <1>2
<1>4. \A k \in S : x <= n - k
  <2>1. \A k \in S : n - k \in T
    OBVIOUS
  <2> HIDE DEF T
  <2> QED
    BY <1>2, <2>1
<1>5. \A k \in S : k <= m
  BY <1>3, <1>4
<1> QED
  BY <1>3, <1>5

-----------------------------------------------------------------------------
(* Facts about the operators of the aggregate.                             *)

\* OverlapsWith, of the code, is intersection in time except when the slot
\* that was there first encloses the new one.
LEMMA OverlapsWithIsIntersection ==
    ASSUME NEW a \in Timeslots, NEW b \in Timeslots
    PROVE  OverlapsWith(a, b) <=> Intersects(a, b) /\ ~Encloses(a, b)
BY DEF Timeslots, TimePair, IsValid, OverlapsWith, Intersects, Encloses

\* What an aggregate raises on a command it may handle are events.
LEMMA NewEventsType ==
    ASSUME NEW events \in Seq(Event), NEW c \in Command, NEW r \in Requests,
           MayHandle(events, c)
    PROVE  /\ NewEvents(events, c, r) \in Seq(Event)
           /\ Len(NewEvents(events, c, r)) \in Nat \ {0}
           /\ \A i \in DOMAIN NewEvents(events, c, r) :
                 NewEvents(events, c, r)[i].origin = r
<1>1. IsValid(c.slot)
  BY DEF MayHandle, MayPlan, MayFinish
<1>2. c.slot \in TimePair
  BY DEF Command, PlanTradingCommand, FinishTradingCommand
<1>3. c.slot \in Timeslots
  BY <1>1, <1>2 DEF Timeslots
<1>4. Raised(c, r) \in Event /\ Raised(c, r).origin = r
  <2>1. CASE c \in PlanTradingCommand
    BY <2>1, <1>3 DEF Raised, PlanTradingCommand, Event, TradingPlanned
  <2>2. CASE c \in FinishTradingCommand
    BY <2>2, <1>3 DEF Raised, FinishTradingCommand, Event, TradingFinished
  <2> QED
    BY <2>1, <2>2 DEF Command
<1>5. Created(r) \in Event /\ Created(r).origin = r
  BY DEF Created, Event, PlanningCreated
<1> QED
  BY <1>4, <1>5 DEF NewEvents

\* Events inserted at the next versions extend the stream at its end.
LEMMA InsertAppends ==
    ASSUME NEW s \in Seq(Event), NEW t \in Seq(Event)
    PROVE  InsertEvents(s, Len(s), t) = s \o t
<1> DEFINE f == InsertEvents(s, Len(s), t)
           n == Len(s) + Len(t)
<1>1. DOMAIN s \cup Versions(Len(s), t) = 1 .. n
  BY DEF Versions
<1>2. DOMAIN (s \o t) = 1 .. n
  OBVIOUS
<1>3. f = [v \in 1 .. n |-> f[v]]
  BY <1>1 DEF InsertEvents
<1>4. \A v \in 1 .. n : f[v] = (s \o t)[v]
  BY <1>1 DEF InsertEvents, Versions
<1>5. s \o t = [v \in 1 .. n |-> (s \o t)[v]]
  <2>1. /\ s \o t \in Seq(Event)
        /\ Len(s \o t) = n
    BY ConcatProperties
  <2>2. \A q \in Seq(Event) : q = [v \in 1 .. Len(q) |-> q[v]]
    OBVIOUS
  <2> QED
    BY <2>1, <2>2
<1> QED
  BY <1>3, <1>4, <1>5

\* AggregateRoot's count of the events it replayed is the length of the list.
LEMMA VersionIsLength ==
    ASSUME NEW s \in Seq(Event)
    PROVE  Cardinality(DOMAIN s) = Len(s)
<1>1. DOMAIN s = 1 .. Len(s) /\ Len(s) \in Nat
  OBVIOUS
<1> QED
  BY <1>1, FS_Interval

-----------------------------------------------------------------------------
(* The invariant of the event store.                                       *)

\* The commit of a request appends what it raised on the whole stored stream.
LEMMA CommitAppends ==
    ASSUME ControlInv, NEW r \in Requests, StoreEvents(r)
    PROVE  /\ date[r] \in Dates
           /\ loaded[r] = planningEvent[date[r]]
           /\ MayHandle(loaded[r], command[r])
           /\ pending[r] = NewEvents(loaded[r], command[r], r)
           /\ pending[r] \in Seq(Event)
           /\ Len(pending[r]) \in Nat \ {0}
           /\ \A i \in DOMAIN pending[r] : pending[r][i].origin = r
           /\ planningEvent' =
                [planningEvent EXCEPT ![date[r]] = @ \o pending[r]]
           /\ planning' = [x \in DOMAIN planning \cup {date[r]} |->
                             IF x = date[r]
                             THEN Len(planningEvent[date[r]]) + Len(pending[r])
                             ELSE planning[x]]
<1> DEFINE d == date[r]
<1>1. /\ d \in Dates /\ loaded[r] \in Seq(Event) /\ planningEvent[d] \in Seq(Event)
      /\ command[r] \in Command /\ pc[r] = "store"
  BY CommandsAssumption DEF ControlInv, TypeOK, StoreEvents
<1>2. loaded[r] = planningEvent[d]
  <2>1. /\ Len(loaded[r]) = Len(planningEvent[d])
        /\ \A v \in 1 .. Len(loaded[r]) : loaded[r][v] = planningEvent[d][v]
    BY <1>1 DEF ControlInv, CommitterIsUpToDate, LoadedIsPrefix
  <2>2. \A s, t \in Seq(Event) :
            Len(s) = Len(t) /\ (\A v \in 1 .. Len(s) : s[v] = t[v]) => s = t
    OBVIOUS
  <2> QED
    BY <1>1, <2>1, <2>2
<1>3. MayHandle(loaded[r], command[r]) /\ pending[r] = NewEvents(loaded[r], command[r], r)
  BY <1>1 DEF ControlInv, SavesWhatItRaised
<1>4. /\ pending[r] \in Seq(Event) /\ Len(pending[r]) \in Nat \ {0}
      /\ \A i \in DOMAIN pending[r] : pending[r][i].origin = r
  BY <1>1, <1>3, NewEventsType
<1>5. OriginalVersion(r) = Len(planningEvent[d])
  BY <1>1, <1>2, VersionIsLength DEF OriginalVersion
<1>6. NewVersion(r) = Len(planningEvent[d]) + Len(pending[r])
  BY <1>5 DEF NewVersion
<1>7. planningEvent' =
        [planningEvent EXCEPT
           ![d] = InsertEvents(@, Len(planningEvent[d]), pending[r])]
  BY <1>5 DEF StoreEvents
<1>8. InsertEvents(planningEvent[d], Len(planningEvent[d]), pending[r])
      = planningEvent[d] \o pending[r]
  BY <1>1, <1>4, InsertAppends
<1>9. planningEvent' = [planningEvent EXCEPT ![d] = @ \o pending[r]]
  BY <1>7, <1>8
<1>10. planning' = [x \in DOMAIN planning \cup {d} |->
                      IF x = d THEN Len(planningEvent[d]) + Len(pending[r])
                      ELSE planning[x]]
  BY <1>6 DEF StoreEvents
<1> QED
  BY <1>1, <1>2, <1>3, <1>4, <1>9, <1>10

LEMMA InitControl == Init => ControlInv
<1> SUFFICES ASSUME Init PROVE ControlInv
  OBVIOUS
<1> USE DEF Init
<1>1. TypeOK
  BY DEF TypeOK, Locations, Answers
<1>2. VersionCountsEvents
  BY DEF VersionCountsEvents
<1>3. LoadedIsPrefix
  BY DEF LoadedIsPrefix
<1>4. SavesWhatItRaised /\ RowFoundStays /\ CommitterIsUpToDate
  BY DEF SavesWhatItRaised, RowFoundStays, CommitterIsUpToDate
<1> QED
  BY <1>1, <1>2, <1>3, <1>4 DEF ControlInv

\* A step that only moves a request on, and perhaps answers it.
Moves(r, location) ==
    /\ location = "update" => pc[r] = "save" /\ date[r] \in DOMAIN planning
    /\ location = "insert" => pc[r] = "save"
    /\ pc' = [pc EXCEPT ![r] = location]
    /\ answer' \in [Requests -> Answers]
    /\ UNCHANGED <<planning, planningEvent, lock, date, command, loaded, pending,
                   exchange>>

LEMMA MoveKeepsControl ==
    ASSUME ControlInv, NEW r \in Requests,
           NEW location \in {"replay", "handle", "update", "insert", "done"},
           Moves(r, location)
    PROVE  ControlInv'
<1> USE DEF ControlInv, Moves
<1>1. TypeOK'
  BY DEF TypeOK, Locations
<1>2. VersionCountsEvents'
  BY DEF VersionCountsEvents
<1>3. LoadedIsPrefix'
  BY DEF LoadedIsPrefix
<1>4. SavesWhatItRaised'
  BY DEF SavesWhatItRaised, TypeOK
<1>5. RowFoundStays'
  BY DEF RowFoundStays, TypeOK
<1>6. CommitterIsUpToDate'
  BY DEF CommitterIsUpToDate, TypeOK
<1> QED
  BY <1>1, <1>2, <1>3, <1>4, <1>5, <1>6

\* The commit, the one step that changes the tables.
LEMMA CommitKeepsControl ==
    ASSUME ControlInv, NEW r \in Requests, StoreEvents(r)
    PROVE  ControlInv'
<1> DEFINE d == date[r]
           n == Len(planningEvent[d]) + Len(pending[r])
<1>1. /\ d \in Dates
      /\ pending[r] \in Seq(Event)
      /\ Len(pending[r]) \in Nat \ {0}
      /\ planningEvent' = [planningEvent EXCEPT ![d] = @ \o pending[r]]
      /\ planning' = [x \in DOMAIN planning \cup {d} |->
                         IF x = d THEN n ELSE planning[x]]
  BY CommitAppends
<1>2. /\ pc[r] = "store" /\ pc' = [pc EXCEPT ![r] = "publish"]
      /\ lock' = [lock EXCEPT ![d] = NoRequest]
      /\ UNCHANGED <<inputs, loaded, pending, answer, exchange>>
  BY DEF StoreEvents, Goto
<1>3. TypeOK
  BY DEF ControlInv
<1>4. \A x \in Dates : planningEvent[x] \in Seq(Event) /\ Len(planningEvent[x]) \in Nat
  BY <1>3 DEF TypeOK
<1>5. /\ DOMAIN planningEvent' = Dates
      /\ planningEvent'[d] = planningEvent[d] \o pending[r]
      /\ planningEvent'[d] \in Seq(Event)
      /\ Len(planningEvent'[d]) = n
      /\ DOMAIN planningEvent'[d] = 1 .. n
      /\ \A v \in 1 .. Len(planningEvent[d]) :
            planningEvent'[d][v] = planningEvent[d][v]
  BY <1>1, <1>3, <1>4 DEF TypeOK
<1>6. \A x \in Dates \ {d} : planningEvent'[x] = planningEvent[x]
  BY <1>1, <1>3 DEF TypeOK
<1>7. TypeOK'
  BY <1>1, <1>2, <1>3, <1>4, <1>5, <1>6 DEF TypeOK, inputs, Locations
<1>8. VersionCountsEvents'
  <2>1. VersionCountsEvents
    BY DEF ControlInv
  <2> QED
    BY <1>1, <1>3, <1>5, <1>6, <2>1 DEF VersionCountsEvents, TypeOK
<1>9. LoadedIsPrefix'
  <2> SUFFICES ASSUME NEW q \in Requests
               PROVE  /\ Len(loaded[q]) <= Len(planningEvent'[date[q]])
                      /\ \A v \in 1 .. Len(loaded[q]) :
                            loaded[q][v] = planningEvent'[date[q]][v]
    BY <1>2 DEF LoadedIsPrefix, inputs
  <2>1. /\ Len(loaded[q]) <= Len(planningEvent[date[q]])
        /\ \A v \in 1 .. Len(loaded[q]) :
              loaded[q][v] = planningEvent[date[q]][v]
        /\ date[q] \in Dates /\ Len(loaded[q]) \in Nat
    BY <1>3 DEF ControlInv, LoadedIsPrefix, TypeOK
  <2>2. CASE date[q] = d
    <3>1. Len(loaded[q]) <= Len(planningEvent[d])
      BY <2>1, <2>2
    <3>2. Len(planningEvent[d]) \in Nat /\ Len(planningEvent'[d]) = n
      BY <1>1, <1>4, <1>5
    <3>3. Len(pending[r]) \in Nat
      BY <1>1
    <3>4. Len(loaded[q]) <= Len(planningEvent'[d])
      <4>1. Len(loaded[q]) \in Nat
        BY <2>1
      <4>2. \A a, b, c \in Nat : a <= b => a <= b + c
        OBVIOUS
      <4>3. Len(planningEvent[d]) \in Nat
        BY <3>2
      <4>4. Len(loaded[q]) <= n
        BY <3>1, <3>3, <4>1, <4>2, <4>3
      <4> HIDE DEF n
      <4> QED
        BY <3>2, <4>4
    <3>5. \A v \in 1 .. Len(loaded[q]) : v \in 1 .. Len(planningEvent[d])
      BY <2>1, <3>1, <3>2
    <3>6. \A v \in 1 .. Len(loaded[q]) : loaded[q][v] = planningEvent'[d][v]
      BY <2>1, <2>2, <3>5, <1>5
    <3> QED
      BY <2>2, <3>4, <3>6
  <2>3. CASE date[q] # d
    BY <2>1, <2>3, <1>6
  <2> QED
    BY <2>2, <2>3
<1>10. SavesWhatItRaised'
  BY <1>2, <1>3 DEF ControlInv, SavesWhatItRaised, TypeOK, inputs
<1>11. RowFoundStays'
  BY <1>1, <1>2, <1>3 DEF ControlInv, RowFoundStays, TypeOK, inputs
<1>12. CommitterIsUpToDate'
  <2> SUFFICES ASSUME NEW q \in Requests, pc'[q] = "store"
               PROVE  /\ lock'[date[q]] = q
                      /\ Len(loaded[q]) = Len(planningEvent'[date[q]])
    BY <1>2 DEF CommitterIsUpToDate, inputs
  <2>1. q # r /\ pc[q] = "store"
    BY <1>2, <1>3 DEF TypeOK
  <2>2. /\ lock[date[q]] = q /\ lock[d] = r
        /\ Len(loaded[q]) = Len(planningEvent[date[q]])
        /\ date[q] \in Dates
    BY <2>1, <1>2, <1>3 DEF ControlInv, CommitterIsUpToDate, TypeOK
  <2> QED
    BY <2>1, <2>2, <1>2, <1>3, <1>6 DEF TypeOK
<1> QED
  BY <1>7, <1>8, <1>9, <1>10, <1>11, <1>12 DEF ControlInv

LEMMA NextKeepsControl == ControlInv /\ [Next]_vars => ControlInv'
<1> SUFFICES ASSUME ControlInv, [Next]_vars PROVE ControlInv'
  OBVIOUS
<1> USE DEF tables, inputs
<1>1. TypeOK
  BY DEF ControlInv
<1>2. ASSUME NEW r \in Requests, LoadPlanning(r) PROVE ControlInv'
  <2>1. Moves(r, "replay")
    BY <1>1, <1>2 DEF LoadPlanning, Moves, Goto, TypeOK
  <2> QED
    BY <2>1, MoveKeepsControl
<1>3. ASSUME NEW r \in Requests, MissPlanning(r) PROVE ControlInv'
  <2>1. Moves(r, "handle") \/ Moves(r, "done")
    BY <1>1, <1>3 DEF MissPlanning, Moves, Answer, Goto, TypeOK, Answers
  <2> QED
    BY <2>1, MoveKeepsControl
<1>4. ASSUME NEW r \in Requests, LoadEvents(r) PROVE ControlInv'
  <2> USE <1>4 DEF LoadEvents, Goto
  <2>1. TypeOK'
    BY <1>1 DEF TypeOK, Locations
  <2>2. VersionCountsEvents'
    BY DEF ControlInv, VersionCountsEvents
  <2>3. LoadedIsPrefix'
    BY <1>1 DEF ControlInv, LoadedIsPrefix, TypeOK
  <2>4. SavesWhatItRaised'
    BY <1>1 DEF ControlInv, SavesWhatItRaised, TypeOK
  <2>5. RowFoundStays'
    BY <1>1 DEF ControlInv, RowFoundStays, TypeOK
  <2>6. CommitterIsUpToDate'
    BY <1>1 DEF ControlInv, CommitterIsUpToDate, TypeOK
  <2> QED
    BY <2>1, <2>2, <2>3, <2>4, <2>5, <2>6 DEF ControlInv
<1>5. ASSUME NEW r \in Requests, HandleCommand(r) PROVE ControlInv'
  <2> USE <1>5 DEF HandleCommand, Goto
  <2>1. NewEvents(loaded[r], command[r], r) \in Seq(Event)
    BY <1>1, NewEventsType, CommandsAssumption DEF TypeOK
  <2>2. TypeOK'
    BY <1>1, <2>1 DEF TypeOK, Locations
  <2>3. VersionCountsEvents'
    BY DEF ControlInv, VersionCountsEvents
  <2>4. LoadedIsPrefix'
    BY DEF ControlInv, LoadedIsPrefix
  <2>5. SavesWhatItRaised'
    BY <1>1 DEF ControlInv, SavesWhatItRaised, TypeOK
  <2>6. RowFoundStays' /\ CommitterIsUpToDate'
    BY <1>1 DEF ControlInv, RowFoundStays, CommitterIsUpToDate, TypeOK
  <2> QED
    BY <2>2, <2>3, <2>4, <2>5, <2>6 DEF ControlInv
<1>6. ASSUME NEW r \in Requests, RejectCommand(r) PROVE ControlInv'
  <2>1. Moves(r, "done")
    BY <1>1, <1>6 DEF RejectCommand, Moves, Answer, Goto, TypeOK, Answers
  <2> QED
    BY <2>1, MoveKeepsControl
<1>7. ASSUME NEW r \in Requests, SelectPlanning(r) PROVE ControlInv'
  <2>1. Moves(r, "update") \/ Moves(r, "insert")
    BY <1>1, <1>7 DEF SelectPlanning, Moves, Goto, TypeOK
  <2> QED
    BY <2>1, MoveKeepsControl
<1>8. ASSUME NEW r \in Requests, UpdatePlanning(r) PROVE ControlInv'
  <2>1. /\ planning[date[r]] = Len(loaded[r])
        /\ pc[r] = "update" /\ pc' = [pc EXCEPT ![r] = "store"]
        /\ lock[date[r]] = NoRequest /\ lock' = [lock EXCEPT ![date[r]] = r]
        /\ UNCHANGED <<tables, inputs, loaded, pending, answer, exchange>>
    BY <1>1, <1>8, VersionIsLength
       DEF UpdatePlanning, OriginalVersion, Goto, Unlocked, TypeOK
  <2>2. Len(loaded[r]) = Len(planningEvent[date[r]])
    <3>1. date[r] \in Dates /\ date[r] \in DOMAIN planning
      BY <1>1, <2>1 DEF ControlInv, RowFoundStays, TypeOK
    <3>2. /\ planningEvent[date[r]] \in Seq(Event)
          /\ DOMAIN planningEvent[date[r]] = 1 .. planning[date[r]]
          /\ planning[date[r]] \in Nat
      BY <1>1, <3>1 DEF ControlInv, VersionCountsEvents, TypeOK
    <3> QED
      BY <3>2, <2>1
  <2>3. TypeOK'
    BY <1>1, <2>1 DEF TypeOK, Locations
  <2>4. VersionCountsEvents' /\ LoadedIsPrefix'
    BY <2>1 DEF ControlInv, VersionCountsEvents, LoadedIsPrefix
  <2>5. SavesWhatItRaised'
    BY <1>1, <2>1 DEF ControlInv, SavesWhatItRaised, TypeOK
  <2>6. RowFoundStays'
    BY <1>1, <2>1 DEF ControlInv, RowFoundStays, TypeOK
  <2>7. CommitterIsUpToDate'
    BY <1>1, <2>1, <2>2, NoRequestAssumption
       DEF ControlInv, CommitterIsUpToDate, TypeOK
  <2> QED
    BY <2>3, <2>4, <2>5, <2>6, <2>7 DEF ControlInv
<1>9. ASSUME NEW r \in Requests, UpdateNothing(r) PROVE ControlInv'
  <2>1. Moves(r, "done")
    BY <1>1, <1>9 DEF UpdateNothing, Moves, Answer, Goto, TypeOK, Answers
  <2> QED
    BY <2>1, MoveKeepsControl
<1>10. ASSUME NEW r \in Requests, InsertPlanning(r) PROVE ControlInv'
  <2>1. /\ date[r] \notin DOMAIN planning
        /\ pc[r] = "insert" /\ pc' = [pc EXCEPT ![r] = "store"]
        /\ lock[date[r]] = NoRequest /\ lock' = [lock EXCEPT ![date[r]] = r]
        /\ UNCHANGED <<tables, inputs, loaded, pending, answer, exchange>>
    BY <1>10 DEF InsertPlanning, Goto, Unlocked
  <2>2. Len(loaded[r]) = Len(planningEvent[date[r]])
    <3>1. /\ planningEvent[date[r]] \in Seq(Event)
          /\ DOMAIN planningEvent[date[r]] = {}
          /\ loaded[r] \in Seq(Event)
          /\ Len(loaded[r]) <= Len(planningEvent[date[r]])
      BY <1>1, <2>1 DEF ControlInv, VersionCountsEvents, LoadedIsPrefix, TypeOK
    <3> QED
      BY <3>1
  <2>3. TypeOK'
    BY <1>1, <2>1 DEF TypeOK, Locations
  <2>4. VersionCountsEvents' /\ LoadedIsPrefix'
    BY <2>1 DEF ControlInv, VersionCountsEvents, LoadedIsPrefix
  <2>5. SavesWhatItRaised'
    BY <1>1, <2>1 DEF ControlInv, SavesWhatItRaised, TypeOK
  <2>6. RowFoundStays'
    BY <1>1, <2>1 DEF ControlInv, RowFoundStays, TypeOK
  <2>7. CommitterIsUpToDate'
    BY <1>1, <2>1, <2>2, NoRequestAssumption
       DEF ControlInv, CommitterIsUpToDate, TypeOK
  <2> QED
    BY <2>3, <2>4, <2>5, <2>6, <2>7 DEF ControlInv
<1>11. ASSUME NEW r \in Requests, InsertDuplicate(r) PROVE ControlInv'
  <2>1. Moves(r, "done")
    BY <1>1, <1>11 DEF InsertDuplicate, Moves, Answer, Goto, TypeOK, Answers
  <2> QED
    BY <2>1, MoveKeepsControl
<1>12. ASSUME NEW r \in Requests, StoreEvents(r) PROVE ControlInv'
  BY <1>12, CommitKeepsControl
<1>13. ASSUME NEW r \in Requests, PublishEvent(r) PROVE ControlInv'
  <2> USE <1>13 DEF PublishEvent
  <2>1. TypeOK'
    BY <1>1 DEF TypeOK
  <2>2. VersionCountsEvents' /\ LoadedIsPrefix'
    BY DEF ControlInv, VersionCountsEvents, LoadedIsPrefix
  <2>3. SavesWhatItRaised'
    BY <1>1 DEF ControlInv, SavesWhatItRaised, TypeOK
  <2>4. RowFoundStays' /\ CommitterIsUpToDate'
    BY <1>1 DEF ControlInv, RowFoundStays, CommitterIsUpToDate, TypeOK
  <2> QED
    BY <2>1, <2>2, <2>3, <2>4 DEF ControlInv
<1>14. ASSUME NEW r \in Requests, Respond(r) PROVE ControlInv'
  <2>1. Moves(r, "done")
    BY <1>1, <1>14 DEF Respond, Moves, Answer, Goto, TypeOK, Answers
  <2> QED
    BY <2>1, MoveKeepsControl
<1>15. ASSUME NEW r \in Requests, Fail(r) PROVE ControlInv'
  <2> USE <1>15 DEF Fail, Answer, Goto
  <2>1. TypeOK'
    BY <1>1 DEF TypeOK, Locations, Answers
  <2>2. VersionCountsEvents' /\ LoadedIsPrefix'
    BY DEF ControlInv, VersionCountsEvents, LoadedIsPrefix
  <2>3. SavesWhatItRaised'
    BY <1>1 DEF ControlInv, SavesWhatItRaised, TypeOK
  <2>4. RowFoundStays'
    BY <1>1 DEF ControlInv, RowFoundStays, TypeOK
  <2>5. CommitterIsUpToDate'
    BY <1>1 DEF ControlInv, CommitterIsUpToDate, TypeOK
  <2> QED
    BY <2>1, <2>2, <2>3, <2>4, <2>5 DEF ControlInv
<1>16. CASE UNCHANGED vars
  BY <1>16 DEF vars, ControlInv, TypeOK, VersionCountsEvents, LoadedIsPrefix,
               SavesWhatItRaised, RowFoundStays, CommitterIsUpToDate
<1> QED
  BY <1>2, <1>3, <1>4, <1>5, <1>6, <1>7, <1>8, <1>9, <1>10, <1>11, <1>12, <1>13,
     <1>14, <1>15, <1>16 DEF Next, Step, Finished

\* Every variable keeps its type: in particular a stored stream is a sequence,
\* and loaded events replay.
THEOREM TypeCorrect == Spec => []TypeOK
<1>1. ControlInv => TypeOK
  BY DEF ControlInv
<1> QED
  BY <1>1, InitControl, NextKeepsControl, PTL DEF Spec

\* CurrentVersion counts the stored events of its planning.
THEOREM VersionsCountEvents == Spec => []VersionCountsEvents
<1>1. ControlInv => VersionCountsEvents
  BY DEF ControlInv
<1> QED
  BY <1>1, InitControl, NextKeepsControl, PTL DEF Spec

-----------------------------------------------------------------------------
(* Every stored event obeyed the rules.                                    *)

\* The only step that changes the stored events is a commit.
LEMMA OnlyCommitStores ==
    ASSUME [Next]_vars, ~\E r \in Requests : StoreEvents(r)
    PROVE  UNCHANGED <<planning, planningEvent>>
BY DEF Next, Step, Finished, vars, tables, LoadPlanning, MissPlanning, LoadEvents,
       HandleCommand, RejectCommand, SelectPlanning, UpdatePlanning, UpdateNothing,
       InsertPlanning, InsertDuplicate, PublishEvent, Respond, Fail

LEMMA BeforeAppend ==
    ASSUME NEW s \in Seq(Event), NEW t \in Seq(Event)
    PROVE  /\ \A v \in DOMAIN s : /\ (s \o t)[v] = s[v]
                                  /\ Before(s \o t, v) = Before(s, v)
           /\ Before(s \o t, Len(s) + 1) = s
<1>1. /\ Len(s) \in Nat /\ DOMAIN s = 1 .. Len(s)
      /\ DOMAIN (s \o t) = 1 .. Len(s) + Len(t) /\ Len(t) \in Nat
      /\ \A v \in 1 .. Len(s) : (s \o t)[v] = s[v]
  OBVIOUS
<1>2. ASSUME NEW v \in 1 .. Len(s) + 1
      PROVE  Before(s \o t, v) = [w \in 1 .. v - 1 |-> s[w]]
  <2>1. {w \in DOMAIN (s \o t) : w < v} = 1 .. v - 1
    BY <1>1
  <2> QED
    BY <2>1, <1>1 DEF Before
<1>3. ASSUME NEW v \in 1 .. Len(s)
      PROVE  Before(s, v) = [w \in 1 .. v - 1 |-> s[w]]
  <2>1. {w \in DOMAIN s : w < v} = 1 .. v - 1
    BY <1>1
  <2> QED
    BY <2>1 DEF Before
<1>4. s = [w \in 1 .. Len(s) |-> s[w]]
  OBVIOUS
<1>5. Before(s \o t, Len(s) + 1) = s
  <2>1. Len(s) + 1 \in 1 .. Len(s) + 1 /\ Len(s) + 1 - 1 = Len(s)
    BY <1>1
  <2>2. Before(s \o t, Len(s) + 1) = [w \in 1 .. Len(s) + 1 - 1 |-> s[w]]
    BY <2>1, <1>2
  <2> QED
    BY <2>1, <2>2, <1>4
<1>6. ASSUME NEW v \in DOMAIN s PROVE Before(s \o t, v) = Before(s, v)
  <2>1. v \in 1 .. Len(s) + 1 /\ v \in 1 .. Len(s)
    BY <1>1
  <2> QED
    BY <2>1, <1>2, <1>3
<1> QED
  BY <1>1, <1>5, <1>6

\* The events a command raises are admissible where they are appended.
LEMMA NewEventsAdmissible ==
    ASSUME NEW s \in Seq(Event), NEW c \in Command, NEW r \in Requests,
           MayHandle(s, c)
    PROVE  LET t == NewEvents(s, c, r)
           IN  \A i \in DOMAIN t : Admissible(t[i], Before(s \o t, Len(s) + i))
<1> DEFINE t == NewEvents(s, c, r)
           e == Raised(c, r)
<1>1. t \in Seq(Event)
  BY NewEventsType
<1>2. Before(s \o t, Len(s) + 1) = s
  BY <1>1, BeforeAppend
<1>3. CASE s # << >>
  <2>1. DOMAIN s # {}
    <3>1. Len(s) \in Nat \ {0} /\ DOMAIN s = 1 .. Len(s)
      BY <1>3, EmptySeq
    <3>2. 1 \in DOMAIN s
      BY <3>1
    <3> QED
      BY <3>2
  <2>2. t = <<e>>
    BY <2>1 DEF NewEvents
  <2>3. Admissible(e, s)
    <3>1. CASE c.type = "PlanTrading"
      BY <2>1, <3>1 DEF MayHandle, Admissible, Raised, MayPlan
    <3>2. CASE c.type = "FinishTrading"
      BY <2>1, <3>2 DEF MayHandle, Admissible, Raised, MayFinish
    <3> QED
      BY <3>1, <3>2 DEF Command, PlanTradingCommand, FinishTradingCommand
  <2> QED
    BY <1>2, <2>2, <2>3
<1>4. CASE s = << >>
  <2>1. t = <<Created(r), e>>
    BY <1>4 DEF NewEvents
  <2>2. s \o t = t /\ Len(s) = 0
    BY <1>1, <1>4
  <2>3. c.type = "PlanTrading"
    <3>1. ~HasJob(s, c.jobId)
      BY <1>4 DEF HasJob, Jobs
    <3> QED
      BY <3>1 DEF MayHandle, MayFinish, Command, PlanTradingCommand, FinishTradingCommand
  <2>4. Admissible(Created(r), Before(t, 1))
    BY <1>2, <1>4, <2>2 DEF Admissible, Created
  <2>5. Before(t, 2) = <<Created(r)>>
    <3>1. {w \in DOMAIN t : w < 2} = {1}
      BY <2>1
    <3>2. Before(t, 2) = [w \in {1} |-> t[w]]
      BY <3>1 DEF Before
    <3>3. 1 .. 1 = {1}
      OBVIOUS
    <3> QED
      BY <2>1, <3>2, <3>3
  <2>6. Jobs(<<Created(r)>>) = {}
    BY DEF Jobs, Created
  <2>7. MayPlan(<<Created(r)>>, c)
    <3>1. /\ ParallelJobs(<<Created(r)>>, c.slot) = {}
          /\ StockIsFree(<<Created(r)>>, c.ticker, c.slot)
      BY <2>6 DEF ParallelJobs, StockIsFree, JobsOn
    <3>2. WorkstationLeft(<<Created(r)>>, c.slot)
      <4>1. Cardinality({}) = 0
        BY FS_EmptySet
      <4>2. 0 < AvailableWorkstations
        BY WorkstationsAssumption
      <4> QED
        BY <3>1, <4>1, <4>2 DEF WorkstationLeft
    <3> QED
      BY <2>3, <3>1, <3>2 DEF MayHandle, MayPlan
  <2>8. Admissible(e, Before(t, 2))
    <3>1. e.type = "TradingPlanned" /\ e.slot = c.slot /\ e.ticker = c.ticker
      BY <2>3 DEF Raised
    <3>2. DOMAIN <<Created(r)>> # {}
      <4>1. 1 \in DOMAIN <<Created(r)>>
        OBVIOUS
      <4> QED
        BY <4>1
    <3> QED
      BY <2>5, <2>7, <3>1, <3>2 DEF Admissible, MayPlan
  <2>9. DOMAIN t = {1, 2} /\ t[1] = Created(r) /\ t[2] = e
    BY <2>1
  <2> HIDE DEF t, e
  <2>10. SUFFICES ASSUME NEW i \in DOMAIN t
                  PROVE  Admissible(t[i], Before(s \o t, Len(s) + i))
    BY DEF t
  <2>11. CASE i = 1
    BY <2>2, <2>4, <2>9, <2>11
  <2>12. CASE i = 2
    BY <2>2, <2>8, <2>9, <2>12
  <2> QED
    BY <2>9, <2>11, <2>12
<1> QED
  BY <1>3, <1>4

LEMMA NextKeepsAdmissible ==
    ControlInv /\ EventsAdmissible /\ [Next]_vars => EventsAdmissible'
<1> SUFFICES ASSUME ControlInv, EventsAdmissible, [Next]_vars
             PROVE  EventsAdmissible'
  OBVIOUS
<1>1. CASE ~\E r \in Requests : StoreEvents(r)
  BY <1>1, OnlyCommitStores DEF EventsAdmissible
<1>2. ASSUME NEW r \in Requests, StoreEvents(r) PROVE EventsAdmissible'
  <2> DEFINE s == planningEvent[date[r]]
             t == pending[r]
  <2>1. /\ date[r] \in Dates /\ s \in Seq(Event) /\ t \in Seq(Event)
        /\ t = NewEvents(s, command[r], r)
        /\ MayHandle(s, command[r]) /\ command[r] \in Command
        /\ planningEvent' = [planningEvent EXCEPT ![date[r]] = s \o t]
        /\ DOMAIN planningEvent = Dates
    BY <1>2, CommitAppends, CommandsAssumption DEF ControlInv, TypeOK
  <2> SUFFICES ASSUME NEW d \in Dates, NEW v \in DOMAIN planningEvent'[d]
               PROVE  Admissible(planningEvent'[d][v], Before(planningEvent'[d], v))
    BY DEF EventsAdmissible
  <2>2. CASE d # date[r]
    BY <2>1, <2>2 DEF EventsAdmissible
  <2>3. CASE d = date[r] /\ v \in DOMAIN s
    <3>1. planningEvent'[d] = s \o t
      BY <2>1, <2>3
    <3>2. (s \o t)[v] = s[v] /\ Before(s \o t, v) = Before(s, v)
      BY <2>1, <2>3, BeforeAppend
    <3>3. Admissible(s[v], Before(s, v))
      BY <2>1, <2>3 DEF EventsAdmissible
    <3> QED
      BY <3>1, <3>2, <3>3
  <2>4. CASE d = date[r] /\ v \notin DOMAIN s
    <3>1. planningEvent'[d] = s \o t
      BY <2>1, <2>4
    <3> HIDE DEF s, t
    <3>2. PICK i \in DOMAIN t : v = Len(s) + i
      <4>1. v \in 1 .. Len(s) + Len(t) /\ v \notin 1 .. Len(s)
        BY <2>1, <2>4, <3>1
      <4>2. Len(s) \in Nat /\ Len(t) \in Nat /\ DOMAIN t = 1 .. Len(t)
        BY <2>1
      <4>3. v - Len(s) \in 1 .. Len(t) /\ v = Len(s) + (v - Len(s))
        BY <4>1, <4>2
      <4> QED
        BY <4>2, <4>3
    <3>3. (s \o t)[v] = t[i]
      BY <2>1, <3>2
    <3>4. Admissible(t[i], Before(s \o t, Len(s) + i))
      BY <2>1, <3>2, NewEventsAdmissible
    <3> QED
      BY <3>1, <3>2, <3>3, <3>4
  <2> QED
    BY <2>2, <2>3, <2>4
<1> QED
  BY <1>1, <1>2

\* Whatever the interleaving, no stored event breaks a business rule on the
\* events stored before it: the version check makes the rules hold of the
\* store and not only of what a request had loaded.
THEOREM RulesHoldOfTheStore == Spec => []EventsAdmissible
<1>1. Init => EventsAdmissible
  BY DEF Init, EventsAdmissible
<1> QED
  BY <1>1, InitControl, NextKeepsControl, NextKeepsAdmissible, PTL DEF Spec

\* On one date and one stock, what the rules let through although it meets a
\* job in time is exactly what that job encloses.
THEOREM StockOverlaps == Spec => []StockOverlapIsEnclosure
<1>1. TypeOK /\ EventsAdmissible => StockOverlapIsEnclosure
  <2> SUFFICES ASSUME TypeOK, EventsAdmissible, NEW d \in Dates,
                      NEW v \in Jobs(planningEvent[d]),
                      NEW w \in Jobs(planningEvent[d]),
                      v < w,
                      planningEvent[d][v].ticker = planningEvent[d][w].ticker,
                      Intersects(planningEvent[d][v].slot, planningEvent[d][w].slot)
               PROVE  Encloses(planningEvent[d][v].slot, planningEvent[d][w].slot)
    BY DEF StockOverlapIsEnclosure
  <2> DEFINE s == planningEvent[d]
             a == s[v]
             b == s[w]
  <2>1. /\ v \in DOMAIN s /\ w \in DOMAIN s /\ a \in Event /\ b \in Event
        /\ a.type = "TradingPlanned" /\ b.type = "TradingPlanned"
    BY DEF TypeOK, Jobs
  <2>2. a.slot \in Timeslots /\ b.slot \in Timeslots
    BY <2>1 DEF Event, PlanningCreated, TradingPlanned, TradingFinished
  <2>3. StockIsFree(Before(s, w), b.ticker, b.slot)
    <3>1. Admissible(b, Before(s, w))
      BY <2>1 DEF EventsAdmissible
    <3> QED
      BY <2>1, <3>1 DEF Admissible, MayPlan
  <2>4. v \in JobsOn(Before(s, w), b.ticker) /\ Before(s, w)[v] = a
    BY <2>1 DEF Before, JobsOn, Jobs
  <2>5. ~OverlapsWith(a.slot, b.slot)
    BY <2>3, <2>4 DEF StockIsFree
  <2> QED
    BY <2>2, <2>5, OverlapsWithIsIntersection
<1> QED
  BY <1>1, TypeCorrect, RulesHoldOfTheStore, PTL

-----------------------------------------------------------------------------
(* How many jobs run at a time.                                            *)

RunningAt(d, time) ==
    {v \in Jobs(planningEvent[d]) :
        /\ planningEvent[d][v].slot.start <= time
        /\ time <= planningEvent[d][v].slot.end}

\* What the rule of the workstations is worth: more jobs of a date run at a
\* time than there are workstations only when one of them, planned first,
\* encloses another, which OverlapsWith does not see.
THEOREM WorkstationsSuffice ==
    Spec => [](\A d \in Dates, time \in Nat :
                  Cardinality(RunningAt(d, time)) > AvailableWorkstations
                  => \E v, w \in RunningAt(d, time) :
                        /\ v < w
                        /\ Encloses(planningEvent[d][v].slot, planningEvent[d][w].slot))
<1>1. TypeOK /\ EventsAdmissible
      => \A d \in Dates, time \in Nat :
            Cardinality(RunningAt(d, time)) > AvailableWorkstations
            => \E v, w \in RunningAt(d, time) :
                  /\ v < w
                  /\ Encloses(planningEvent[d][v].slot, planningEvent[d][w].slot)
  <2> SUFFICES ASSUME TypeOK, EventsAdmissible, NEW d \in Dates, NEW time \in Nat,
                      Cardinality(RunningAt(d, time)) > AvailableWorkstations,
                      \A v, w \in RunningAt(d, time) :
                         v < w => ~Encloses(planningEvent[d][v].slot,
                                            planningEvent[d][w].slot)
               PROVE  FALSE
    OBVIOUS
  <2> DEFINE s == planningEvent[d]
             R == RunningAt(d, time)
  <2>1. s \in Seq(Event)
    BY DEF TypeOK
  <2>2. ASSUME NEW v \in R
        PROVE  /\ v \in DOMAIN s /\ s[v].type = "TradingPlanned"
               /\ s[v].slot \in Timeslots
               /\ s[v].slot.start <= time /\ time <= s[v].slot.end
    <3>1. v \in DOMAIN s /\ s[v] \in Event /\ s[v].type = "TradingPlanned"
      BY <2>1 DEF RunningAt, Jobs
    <3>2. s[v].slot \in Timeslots
      BY <3>1 DEF Event, PlanningCreated, TradingPlanned, TradingFinished
    <3> QED
      BY <3>1, <3>2 DEF RunningAt
  <2>3. R \in SUBSET (1 .. Len(s)) /\ Len(s) \in Nat
    BY <2>1, <2>2
  <2> HIDE DEF s, R
  <2>4. IsFiniteSet(R)
    <3>1. IsFiniteSet(1 .. Len(s))
      BY <2>3, FS_Interval
    <3> QED
      BY <2>3, <3>1, FS_Subset
  <2>5. R # {}
    <3>1. Cardinality({}) = 0
      BY FS_EmptySet
    <3> QED
      BY <3>1, WorkstationsAssumption DEF R
  <2>6. PICK m \in R : \A k \in R : k <= m
    <3>1. R \in SUBSET Nat /\ \A k \in R : k <= Len(s)
      BY <2>3
    <3> QED
      BY <2>3, <2>5, <3>1, GreatestElement
  <2>7. WorkstationLeft(Before(s, m), s[m].slot)
    <3>1. m \in DOMAIN s /\ s[m].type = "TradingPlanned"
      BY <2>2
    <3>2. Admissible(s[m], Before(s, m))
      BY <3>1 DEF EventsAdmissible, s
    <3> QED
      BY <3>1, <3>2 DEF Admissible, MayPlan
  <2> DEFINE P == ParallelJobs(Before(s, m), s[m].slot)
  <2>8. R \ {m} \subseteq P
    <3> SUFFICES ASSUME NEW v \in R \ {m} PROVE v \in P
      OBVIOUS
    <3>1. v < m
      BY <2>3, <2>6
    <3>2. ~Encloses(s[v].slot, s[m].slot)
      BY <3>1 DEF s, R
    <3>3. Intersects(s[v].slot, s[m].slot)
      <4>1. \A a, b \in Timeslots :
               a.start <= time /\ time <= a.end /\ b.start <= time /\ time <= b.end
               => Intersects(a, b)
        BY DEF Timeslots, TimePair, Intersects
      <4> QED
        BY <2>2, <4>1
    <3>4. OverlapsWith(s[v].slot, s[m].slot)
      BY <2>2, <3>2, <3>3, OverlapsWithIsIntersection
    <3>5. v \in Jobs(Before(s, m)) /\ Before(s, m)[v] = s[v]
      BY <2>2, <3>1 DEF Before, Jobs
    <3> QED
      BY <3>4, <3>5 DEF ParallelJobs
  <2>9. IsFiniteSet(P)
    <3>1. P \in SUBSET (1 .. Len(s))
      BY <2>1 DEF ParallelJobs, Jobs, Before
    <3>2. IsFiniteSet(1 .. Len(s))
      BY <2>3, FS_Interval
    <3> HIDE DEF P
    <3> QED
      BY <3>1, <3>2, FS_Subset
  <2>10. Cardinality(P) < AvailableWorkstations /\ Cardinality(P) \in Nat
    <3>1. Cardinality(P) \in Nat
      BY <2>9, FS_CardinalityType
    <3> QED
      BY <2>7, <3>1 DEF WorkstationLeft
  <2>11. Cardinality(R) - 1 <= Cardinality(P) /\ Cardinality(R) \in Nat
    <3> HIDE DEF P
    <3>1. Cardinality(R \ {m}) = Cardinality(R) - 1
      BY <2>4, <2>6, FS_RemoveElement
    <3>2. Cardinality(R \ {m}) <= Cardinality(P)
      BY <2>8, <2>9, FS_Subset
    <3>3. Cardinality(R) \in Nat
      BY <2>4, FS_CardinalityType
    <3> QED
      BY <3>1, <3>2, <3>3
  <2>12. Cardinality(R) > AvailableWorkstations
    BY DEF R
  <2> HIDE DEF P
  <2> QED
    BY <2>10, <2>11, <2>12, WorkstationsAssumption
<1> QED
  BY <1>1, TypeCorrect, RulesHoldOfTheStore, PTL

-----------------------------------------------------------------------------
(* Answers and publication.                                                *)

PublicationInv == /\ StoredOnlyByCommit
                  /\ AnsweredWhenDone
                  /\ DoneIsAnswered
                  /\ PublishesWhatItStored
                  /\ DoneIsPublished
                  /\ RefusedLeavesNoTrace
                  /\ PublishedIsStored

Precommit == {"load", "replay", "handle", "save", "update", "insert", "store"}

LEMMA InitPublication == Init => PublicationInv
BY DEF Init, PublicationInv, StoredOnlyByCommit, AnsweredWhenDone, DoneIsAnswered,
       PublishesWhatItStored, DoneIsPublished, RefusedLeavesNoTrace,
       PublishedIsStored, Stored

\* What a commit does to the stored events, event by event.
LEMMA CommitStores ==
    ASSUME ControlInv, NEW r \in Requests, StoreEvents(r)
    PROVE  /\ \A d \in Dates : \A v \in DOMAIN planningEvent[d] :
                 /\ v \in DOMAIN planningEvent'[d]
                 /\ planningEvent'[d][v] = planningEvent[d][v]
           /\ \A d \in Dates : \A v \in DOMAIN planningEvent'[d] :
                 \/ /\ v \in DOMAIN planningEvent[d]
                    /\ planningEvent'[d][v] = planningEvent[d][v]
                 \/ /\ \E i \in DOMAIN pending[r] :
                          planningEvent'[d][v] = pending[r][i]
                    /\ planningEvent'[d][v].origin = r
           /\ \A i \in DOMAIN pending[r] : \E d \in Dates :
                 \E v \in DOMAIN planningEvent'[d] :
                    planningEvent'[d][v] = pending[r][i]
<1> DEFINE s == planningEvent[date[r]]
           t == pending[r]
<1>1. /\ date[r] \in Dates /\ s \in Seq(Event) /\ t \in Seq(Event)
      /\ \A i \in DOMAIN t : t[i].origin = r
      /\ planningEvent'[date[r]] = s \o t
      /\ \A d \in Dates : d # date[r] => planningEvent'[d] = planningEvent[d]
  <2>1. /\ date[r] \in Dates /\ t \in Seq(Event)
        /\ \A i \in DOMAIN t : t[i].origin = r
        /\ planningEvent' = [planningEvent EXCEPT ![date[r]] = s \o t]
    BY CommitAppends
  <2>2. DOMAIN planningEvent = Dates /\ \A d \in Dates : planningEvent[d] \in Seq(Event)
    BY DEF ControlInv, TypeOK
  <2> QED
    BY <2>1, <2>2
<1> HIDE DEF s, t
<1>2. /\ DOMAIN s = 1 .. Len(s) /\ DOMAIN t = 1 .. Len(t)
      /\ Len(s) \in Nat /\ Len(t) \in Nat
      /\ DOMAIN (s \o t) = 1 .. Len(s) + Len(t)
      /\ \A v \in 1 .. Len(s) : (s \o t)[v] = s[v]
      /\ \A i \in 1 .. Len(t) : (s \o t)[Len(s) + i] = t[i]
  BY <1>1
<1>3. \A v \in DOMAIN (s \o t) : v \in DOMAIN s \/ v - Len(s) \in DOMAIN t
  BY <1>2
<1>4. \A v \in DOMAIN (s \o t) :
         \/ v \in DOMAIN s /\ (s \o t)[v] = s[v]
         \/ \E i \in DOMAIN t : (s \o t)[v] = t[i]
  <2> SUFFICES ASSUME NEW v \in DOMAIN (s \o t), v \notin DOMAIN s
               PROVE  \E i \in DOMAIN t : (s \o t)[v] = t[i]
    BY <1>2
  <2>1. v - Len(s) \in 1 .. Len(t) /\ v = Len(s) + (v - Len(s))
    BY <1>2, <1>3
  <2> QED
    BY <2>1, <1>2
<1>5. \A i \in DOMAIN t : \E v \in DOMAIN (s \o t) : (s \o t)[v] = t[i]
  <2> SUFFICES ASSUME NEW i \in DOMAIN t
               PROVE  \E v \in DOMAIN (s \o t) : (s \o t)[v] = t[i]
    OBVIOUS
  <2>1. Len(s) + i \in DOMAIN (s \o t)
    BY <1>2
  <2> QED
    BY <2>1, <1>2
<1>6. \A v \in DOMAIN s : v \in DOMAIN (s \o t) /\ (s \o t)[v] = s[v]
  BY <1>2
<1>7. s = planningEvent[date[r]] /\ t = pending[r]
  BY DEF s, t
<1>8. ASSUME NEW d \in Dates, NEW v \in DOMAIN planningEvent'[d]
      PROVE  \/ /\ v \in DOMAIN planningEvent[d]
                /\ planningEvent'[d][v] = planningEvent[d][v]
             \/ /\ \E i \in DOMAIN pending[r] :
                      planningEvent'[d][v] = pending[r][i]
                /\ planningEvent'[d][v].origin = r
  <2>1. CASE d = date[r]
    <3>1. planningEvent'[d] = s \o t /\ v \in DOMAIN (s \o t)
      BY <1>1, <2>1
    <3>2. CASE v \in DOMAIN s /\ (s \o t)[v] = s[v]
      BY <3>1, <3>2, <2>1, <1>7
    <3>3. CASE \E i \in DOMAIN t : (s \o t)[v] = t[i]
      BY <3>1, <3>3, <1>1, <1>7
    <3> QED
      BY <3>1, <3>2, <3>3, <1>4
  <2>2. CASE d # date[r]
    BY <1>1, <2>2
  <2> QED
    BY <2>1, <2>2
<1>9. ASSUME NEW d \in Dates, NEW v \in DOMAIN planningEvent[d]
      PROVE  /\ v \in DOMAIN planningEvent'[d]
             /\ planningEvent'[d][v] = planningEvent[d][v]
  BY <1>1, <1>6, <1>7
<1>10. ASSUME NEW i \in DOMAIN pending[r]
       PROVE  \E d \in Dates : \E v \in DOMAIN planningEvent'[d] :
                 planningEvent'[d][v] = pending[r][i]
  <2>1. PICK v \in DOMAIN (s \o t) : (s \o t)[v] = t[i]
    BY <1>5, <1>7
  <2> QED
    BY <1>1, <1>7, <2>1
<1> QED
  BY <1>8, <1>9, <1>10

\* Steps before the commit, and failures.
LEMMA QuietKeepsPublication ==
    ASSUME TypeOK, PublicationInv, NEW r \in Requests,
           UNCHANGED <<planningEvent, exchange>>,
           \A q \in Requests \ {r} : /\ pc'[q] = pc[q]
                                     /\ answer'[q] = answer[q]
                                     /\ pending'[q] = pending[q],
           \/ pc[r] \in Precommit /\ pc'[r] \in Precommit /\ answer'[r] = answer[r]
           \/ pc[r] \in Precommit /\ pc'[r] = "done" /\ answer'[r] # "none"
           \/ pc'[r] = "done" /\ answer'[r] = "Failed"
    PROVE  PublicationInv'
<1> USE DEF PublicationInv, Precommit
<1>1. \A q \in Requests : Stored(q)' <=> Stored(q)
  BY DEF Stored
<1>2. StoredOnlyByCommit'
  BY <1>1 DEF StoredOnlyByCommit
<1>3. AnsweredWhenDone' /\ DoneIsAnswered'
  BY DEF AnsweredWhenDone, DoneIsAnswered
<1>4. PublishesWhatItStored'
  BY DEF PublishesWhatItStored
<1>5. DoneIsPublished'
  <2> SUFFICES ASSUME NEW q \in Requests, pc'[q] = "done", answer'[q] # "Failed",
                      NEW d \in Dates, NEW v \in DOMAIN planningEvent[d],
                      planningEvent[d][v].origin = q
               PROVE  \E i \in DOMAIN exchange : exchange[i] = planningEvent[d][v]
    BY DEF DoneIsPublished
  <2>1. CASE q # r
    BY <2>1 DEF DoneIsPublished
  <2>2. CASE q = r
    <3>1. pc[r] \in Precommit
      BY <2>2
    <3> QED
      BY <2>2, <3>1 DEF StoredOnlyByCommit, Stored
  <2> QED
    BY <2>1, <2>2
<1>6. RefusedLeavesNoTrace'
  BY <1>1 DEF RefusedLeavesNoTrace, StoredOnlyByCommit
<1>7. PublishedIsStored'
  BY DEF PublishedIsStored
<1> QED
  BY <1>2, <1>3, <1>4, <1>5, <1>6, <1>7

LEMMA CommitKeepsPublication ==
    ASSUME ControlInv, PublicationInv, NEW r \in Requests, StoreEvents(r)
    PROVE  PublicationInv'
<1> USE DEF PublicationInv
<1>1. /\ pc[r] = "store" /\ pc' = [pc EXCEPT ![r] = "publish"]
      /\ UNCHANGED <<pending, answer, exchange>>
      /\ pc \in [Requests -> Locations] /\ answer \in [Requests -> Answers]
  BY DEF StoreEvents, Goto, ControlInv, TypeOK
<1>2. \A d \in Dates : \A v \in DOMAIN planningEvent[d] :
         /\ v \in DOMAIN planningEvent'[d]
         /\ planningEvent'[d][v] = planningEvent[d][v]
  BY CommitStores
<1>3. \A d \in Dates : \A v \in DOMAIN planningEvent'[d] :
         \/ /\ v \in DOMAIN planningEvent[d]
            /\ planningEvent'[d][v] = planningEvent[d][v]
         \/ /\ \E i \in DOMAIN pending[r] :
                  planningEvent'[d][v] = pending[r][i]
            /\ planningEvent'[d][v].origin = r
  BY CommitStores
<1>4. \A i \in DOMAIN pending[r] : \E d \in Dates :
         \E v \in DOMAIN planningEvent'[d] : planningEvent'[d][v] = pending[r][i]
  BY CommitStores
<1>5. \A q \in Requests \ {r} : Stored(q)' => Stored(q)
  BY <1>3 DEF Stored
<1>6. answer[r] = "none"
  BY <1>1 DEF AnsweredWhenDone
<1>7. StoredOnlyByCommit'
  BY <1>1, <1>5 DEF StoredOnlyByCommit
<1>8. AnsweredWhenDone' /\ DoneIsAnswered'
  BY <1>1, <1>6 DEF AnsweredWhenDone, DoneIsAnswered
<1>9. PublishesWhatItStored'
  <2> SUFFICES ASSUME NEW q \in Requests, pc'[q] = "publish"
               PROVE  /\ \A i \in DOMAIN pending[q] :
                            \E d \in Dates : \E v \in DOMAIN planningEvent'[d] :
                                planningEvent'[d][v] = pending[q][i]
                      /\ \A d \in Dates : \A v \in DOMAIN planningEvent'[d] :
                            planningEvent'[d][v].origin = q
                            => \/ \E i \in DOMAIN exchange :
                                      exchange[i] = planningEvent'[d][v]
                               \/ \E i \in DOMAIN pending[q] :
                                      pending[q][i] = planningEvent'[d][v]
    BY <1>1 DEF PublishesWhatItStored
  <2>1. CASE q = r
    <3>1. \A d \in Dates : \A v \in DOMAIN planningEvent[d] :
             planningEvent[d][v].origin # r
      BY <1>1 DEF StoredOnlyByCommit, Stored
    <3> QED
      BY <2>1, <3>1, <1>3, <1>4
  <2>2. CASE q # r
    <3>1. pc[q] = "publish"
      BY <1>1, <2>2
    <3>2. ASSUME NEW i \in DOMAIN pending[q]
          PROVE  \E d \in Dates : \E v \in DOMAIN planningEvent'[d] :
                    planningEvent'[d][v] = pending[q][i]
      <4>1. PICK d \in Dates : \E v \in DOMAIN planningEvent[d] :
                    planningEvent[d][v] = pending[q][i]
        BY <3>1 DEF PublishesWhatItStored
      <4> QED
        BY <4>1, <1>2
    <3>3. ASSUME NEW d \in Dates, NEW v \in DOMAIN planningEvent'[d],
                 planningEvent'[d][v].origin = q
          PROVE  \/ \E i \in DOMAIN exchange : exchange[i] = planningEvent'[d][v]
                 \/ \E i \in DOMAIN pending[q] : pending[q][i] = planningEvent'[d][v]
      <4>1. v \in DOMAIN planningEvent[d] /\ planningEvent'[d][v] = planningEvent[d][v]
        BY <1>3, <2>2, <3>3
      <4> QED
        BY <3>1, <3>3, <4>1 DEF PublishesWhatItStored
    <3> QED
      BY <3>2, <3>3
  <2> QED
    BY <2>1, <2>2
<1>10. DoneIsPublished'
  <2> SUFFICES ASSUME NEW q \in Requests, pc'[q] = "done", answer[q] # "Failed",
                      NEW d \in Dates, NEW v \in DOMAIN planningEvent'[d],
                      planningEvent'[d][v].origin = q
               PROVE  \E i \in DOMAIN exchange : exchange[i] = planningEvent'[d][v]
    BY <1>1 DEF DoneIsPublished
  <2>1. q # r /\ pc[q] = "done"
    BY <1>1
  <2>2. v \in DOMAIN planningEvent[d] /\ planningEvent'[d][v] = planningEvent[d][v]
    BY <1>3, <2>1
  <2> QED
    BY <2>1, <2>2 DEF DoneIsPublished
<1>11. RefusedLeavesNoTrace'
  BY <1>1, <1>5, <1>6 DEF RefusedLeavesNoTrace
<1>12. PublishedIsStored'
  <2> SUFFICES ASSUME NEW i \in DOMAIN exchange
               PROVE  \E d \in Dates : \E v \in DOMAIN planningEvent'[d] :
                          planningEvent'[d][v] = exchange[i]
    BY <1>1 DEF PublishedIsStored
  <2>1. PICK d \in Dates : \E v \in DOMAIN planningEvent[d] :
                planningEvent[d][v] = exchange[i]
    BY DEF PublishedIsStored
  <2> QED
    BY <2>1, <1>2
<1> QED
  BY <1>7, <1>8, <1>9, <1>10, <1>11, <1>12

\* A message is published: it is the next pending event, which is stored.
LEMMA PublishKeepsPublication ==
    ASSUME TypeOK, PublicationInv, NEW r \in Requests, PublishEvent(r)
    PROVE  PublicationInv'
<1> DEFINE p == pending[r]
           e == Head(p)
<1> USE DEF PublicationInv
<1>1. /\ pc[r] = "publish" /\ p # << >>
      /\ exchange' = Append(exchange, e)
      /\ pending' = [pending EXCEPT ![r] = Tail(p)]
      /\ UNCHANGED <<planningEvent, pc, answer>>
      /\ p \in Seq(Event) /\ exchange \in Seq(Event)
      /\ pending \in [Requests -> Seq(Event)]
  BY DEF PublishEvent, tables, TypeOK
<1>2. /\ Len(p) \in Nat \ {0} /\ DOMAIN p = 1 .. Len(p)
      /\ e = p[1] /\ e \in Event
  BY <1>1, EmptySeq
<1>3. \A i \in DOMAIN p : p[i] = e \/ \E j \in DOMAIN Tail(p) : Tail(p)[j] = p[i]
  <2> SUFFICES ASSUME NEW i \in DOMAIN p, i # 1
               PROVE  \E j \in DOMAIN Tail(p) : Tail(p)[j] = p[i]
    BY <1>2
  <2>1. i - 1 \in DOMAIN Tail(p) /\ Tail(p)[i - 1] = p[i]
    BY <1>1, <1>2
  <2> QED
    BY <2>1
<1>4. \A j \in DOMAIN Tail(p) : \E i \in DOMAIN p : p[i] = Tail(p)[j]
  <2> SUFFICES ASSUME NEW j \in DOMAIN Tail(p)
               PROVE  \E i \in DOMAIN p : p[i] = Tail(p)[j]
    OBVIOUS
  <2>1. j + 1 \in DOMAIN p /\ Tail(p)[j] = p[j + 1]
    BY <1>1, <1>2
  <2> QED
    BY <2>1
<1>5. /\ \A i \in DOMAIN exchange : i \in DOMAIN exchange' /\ exchange'[i] = exchange[i]
      /\ \E i \in DOMAIN exchange' : exchange'[i] = e
      /\ \A i \in DOMAIN exchange' :
            (i \in DOMAIN exchange /\ exchange'[i] = exchange[i]) \/ exchange'[i] = e
  <2>1. /\ Len(exchange') = Len(exchange) + 1 /\ Len(exchange) \in Nat
        /\ exchange'[Len(exchange) + 1] = e
        /\ DOMAIN exchange' = 1 .. Len(exchange) + 1
        /\ DOMAIN exchange = 1 .. Len(exchange)
        /\ \A i \in 1 .. Len(exchange) : exchange'[i] = exchange[i]
    BY <1>1, <1>2
  <2>2. Len(exchange) + 1 \in DOMAIN exchange'
    BY <2>1
  <2>3. \A i \in DOMAIN exchange' : i \in DOMAIN exchange \/ i = Len(exchange) + 1
    BY <2>1
  <2>4. \A i \in DOMAIN exchange : i \in DOMAIN exchange'
    BY <2>1
  <2> QED
    BY <2>1, <2>2, <2>3, <2>4
<1> HIDE DEF p, e
<1>6. StoredOnlyByCommit' /\ RefusedLeavesNoTrace'
  BY <1>1 DEF StoredOnlyByCommit, RefusedLeavesNoTrace, Stored
<1>7. AnsweredWhenDone' /\ DoneIsAnswered'
  BY <1>1 DEF AnsweredWhenDone, DoneIsAnswered
<1>8. DoneIsPublished'
  BY <1>1, <1>5 DEF DoneIsPublished
<1>9. p = pending[r] /\ planningEvent' = planningEvent /\ pc' = pc
  BY <1>1 DEF p
<1>10. PublishesWhatItStored'
  <2> SUFFICES ASSUME NEW q \in Requests, pc[q] = "publish"
               PROVE  /\ \A i \in DOMAIN pending'[q] :
                            \E d \in Dates : \E v \in DOMAIN planningEvent[d] :
                                planningEvent[d][v] = pending'[q][i]
                      /\ \A d \in Dates : \A v \in DOMAIN planningEvent[d] :
                            planningEvent[d][v].origin = q
                            => \/ \E i \in DOMAIN exchange' :
                                      exchange'[i] = planningEvent[d][v]
                               \/ \E i \in DOMAIN pending'[q] :
                                      pending'[q][i] = planningEvent[d][v]
    BY <1>9 DEF PublishesWhatItStored
  <2>1. CASE q # r
    <3>1. pending'[q] = pending[q]
      BY <1>1, <2>1
    <3>2. /\ \A i \in DOMAIN pending[q] :
                \E d \in Dates : \E v \in DOMAIN planningEvent[d] :
                    planningEvent[d][v] = pending[q][i]
          /\ \A d \in Dates : \A v \in DOMAIN planningEvent[d] :
                planningEvent[d][v].origin = q
                => \/ \E i \in DOMAIN exchange : exchange[i] = planningEvent[d][v]
                   \/ \E i \in DOMAIN pending[q] :
                          pending[q][i] = planningEvent[d][v]
      BY DEF PublishesWhatItStored
    <3>3. \A x : (\E i \in DOMAIN exchange : exchange[i] = x)
                 => (\E i \in DOMAIN exchange' : exchange'[i] = x)
      BY <1>5
    <3> QED
      BY <3>1, <3>2, <3>3
  <2>2. CASE q = r
    <3>1. pending'[q] = Tail(p)
      BY <1>1, <2>2
    <3>2. /\ \A i \in DOMAIN p :
                \E d \in Dates : \E v \in DOMAIN planningEvent[d] :
                    planningEvent[d][v] = p[i]
          /\ \A d \in Dates : \A v \in DOMAIN planningEvent[d] :
                planningEvent[d][v].origin = r
                => \/ \E i \in DOMAIN exchange : exchange[i] = planningEvent[d][v]
                   \/ \E i \in DOMAIN p : p[i] = planningEvent[d][v]
      BY <1>1, <1>9 DEF PublishesWhatItStored
    <3>3. \A i \in DOMAIN Tail(p) :
             \E d \in Dates : \E v \in DOMAIN planningEvent[d] :
                 planningEvent[d][v] = Tail(p)[i]
      BY <3>2, <1>4
    <3>4. ASSUME NEW d \in Dates, NEW v \in DOMAIN planningEvent[d],
                 planningEvent[d][v].origin = r
          PROVE  \/ \E i \in DOMAIN exchange' : exchange'[i] = planningEvent[d][v]
                 \/ \E i \in DOMAIN Tail(p) : Tail(p)[i] = planningEvent[d][v]
      <4>1. CASE \E i \in DOMAIN exchange : exchange[i] = planningEvent[d][v]
        BY <4>1, <1>5
      <4>2. CASE \E i \in DOMAIN p : p[i] = planningEvent[d][v]
        BY <4>2, <1>3, <1>5
      <4> QED
        BY <3>2, <3>4, <4>1, <4>2
    <3> QED
      BY <2>2, <3>1, <3>3, <3>4
  <2> QED
    BY <2>1, <2>2
<1>11. PublishedIsStored'
  <2>1. \E d \in Dates : \E v \in DOMAIN planningEvent[d] : planningEvent[d][v] = e
    <3>1. 1 \in DOMAIN p /\ p[1] = e
      BY <1>2
    <3> QED
      BY <3>1, <1>1, <1>9 DEF PublishesWhatItStored
  <2> SUFFICES ASSUME NEW i \in DOMAIN exchange'
               PROVE  \E d \in Dates : \E v \in DOMAIN planningEvent[d] :
                          planningEvent[d][v] = exchange'[i]
    BY <1>9 DEF PublishedIsStored
  <2>2. CASE i \in DOMAIN exchange /\ exchange'[i] = exchange[i]
    BY <2>2 DEF PublishedIsStored
  <2>3. CASE exchange'[i] = e
    BY <2>1, <2>3
  <2> QED
    BY <2>2, <2>3, <1>5
<1> QED
  BY <1>6, <1>7, <1>8, <1>10, <1>11

LEMMA NextKeepsPublication ==
    ControlInv /\ PublicationInv /\ [Next]_vars => PublicationInv'
<1> SUFFICES ASSUME ControlInv, PublicationInv, [Next]_vars PROVE PublicationInv'
  OBVIOUS
<1>1. TypeOK
  BY DEF ControlInv
<1> USE DEF tables, Goto, Answer
<1>2. ASSUME NEW r \in Requests,
             \/ LoadPlanning(r) \/ LoadEvents(r) \/ HandleCommand(r)
             \/ SelectPlanning(r) \/ UpdatePlanning(r) \/ InsertPlanning(r)
      PROVE  PublicationInv'
  <2>1. /\ pc[r] \in Precommit /\ pc'[r] \in Precommit /\ answer' = answer
        /\ UNCHANGED <<planningEvent, exchange>>
        /\ \A q \in Requests \ {r} : pc'[q] = pc[q] /\ pending'[q] = pending[q]
    BY <1>1, <1>2 DEF TypeOK, Precommit, LoadPlanning, LoadEvents, HandleCommand,
          SelectPlanning, UpdatePlanning, InsertPlanning
  <2> QED
    BY <1>1, <2>1, QuietKeepsPublication
<1>3. ASSUME NEW r \in Requests,
             \/ MissPlanning(r) \/ RejectCommand(r) \/ UpdateNothing(r)
             \/ InsertDuplicate(r)
      PROVE  PublicationInv'
  <2>1. /\ pc[r] \in Precommit
        /\ UNCHANGED <<planningEvent, exchange>>
        /\ \A q \in Requests \ {r} : /\ pc'[q] = pc[q] /\ pending'[q] = pending[q]
                                     /\ answer'[q] = answer[q]
        /\ \/ pc'[r] \in Precommit /\ answer'[r] = answer[r]
           \/ pc'[r] = "done" /\ answer'[r] # "none"
    BY <1>1, <1>3 DEF TypeOK, Precommit, MissPlanning, RejectCommand, UpdateNothing,
          InsertDuplicate
  <2> QED
    BY <1>1, <2>1, QuietKeepsPublication
<1>4. ASSUME NEW r \in Requests, Fail(r) PROVE PublicationInv'
  <2>1. /\ UNCHANGED <<planningEvent, exchange>>
        /\ \A q \in Requests \ {r} : /\ pc'[q] = pc[q] /\ pending'[q] = pending[q]
                                     /\ answer'[q] = answer[q]
        /\ pc'[r] = "done" /\ answer'[r] = "Failed"
    BY <1>1, <1>4 DEF TypeOK, Fail
  <2> QED
    BY <1>1, <2>1, QuietKeepsPublication
<1>5. ASSUME NEW r \in Requests, StoreEvents(r) PROVE PublicationInv'
  BY <1>5, CommitKeepsPublication
<1>6. ASSUME NEW r \in Requests, PublishEvent(r) PROVE PublicationInv'
  BY <1>1, <1>6, PublishKeepsPublication
<1>7. ASSUME NEW r \in Requests, Respond(r) PROVE PublicationInv'
  <2>1. /\ pc[r] = "publish" /\ pending[r] = << >>
        /\ UNCHANGED <<planningEvent, exchange, pending>>
        /\ pc' = [pc EXCEPT ![r] = "done"]
        /\ \E a \in {"Created", "Ok"} : answer' = [answer EXCEPT ![r] = a]
        /\ pc \in [Requests -> Locations] /\ answer \in [Requests -> Answers]
    BY <1>1, <1>7 DEF TypeOK, Respond
  <2>2. \A q \in Requests : Stored(q)' <=> Stored(q)
    BY <2>1 DEF Stored
  <2>3. StoredOnlyByCommit' /\ RefusedLeavesNoTrace'
    BY <2>1, <2>2 DEF PublicationInv, StoredOnlyByCommit, RefusedLeavesNoTrace
  <2>4. AnsweredWhenDone' /\ DoneIsAnswered'
    BY <2>1 DEF PublicationInv, AnsweredWhenDone, DoneIsAnswered
  <2>5. PublishesWhatItStored' /\ PublishedIsStored'
    BY <2>1 DEF PublicationInv, PublishesWhatItStored, PublishedIsStored
  <2>6. DoneIsPublished'
    <3>1. \A d \in Dates : \A v \in DOMAIN planningEvent[d] :
             planningEvent[d][v].origin = r
             => \E i \in DOMAIN exchange : exchange[i] = planningEvent[d][v]
      BY <2>1 DEF PublicationInv, PublishesWhatItStored
    <3> QED
      BY <2>1, <3>1 DEF PublicationInv, DoneIsPublished
  <2> QED
    BY <2>3, <2>4, <2>5, <2>6 DEF PublicationInv
<1>8. CASE UNCHANGED vars
  BY <1>8 DEF vars, PublicationInv, StoredOnlyByCommit, AnsweredWhenDone,
              DoneIsAnswered, PublishesWhatItStored, DoneIsPublished,
              RefusedLeavesNoTrace, PublishedIsStored, Stored
<1> QED
  BY <1>2, <1>3, <1>4, <1>5, <1>6, <1>7, <1>8 DEF Next, Step, Finished

LEMMA PublicationInvariant == Spec => [](ControlInv /\ PublicationInv)
BY InitControl, InitPublication, NextKeepsControl, NextKeepsPublication, PTL DEF Spec

\* A caller told 404, 409 or to try again left no event behind.
THEOREM RefusalsLeaveNoTrace == Spec => []RefusedLeavesNoTrace
<1>1. PublicationInv => RefusedLeavesNoTrace
  BY DEF PublicationInv
<1> QED
  BY <1>1, PublicationInvariant, PTL

\* The exchange carries only events of the store.
THEOREM OnlyStoredIsPublished == Spec => []PublishedIsStored
<1>1. PublicationInv => PublishedIsStored
  BY DEF PublicationInv
<1> QED
  BY <1>1, PublicationInvariant, PTL

\* A stored event fails to reach the exchange only through the failure of the
\* request that stored it.
THEOREM LossNeedsInterruption == Spec => []UnpublishedWasInterrupted
<1>1. ControlInv /\ PublicationInv => UnpublishedWasInterrupted
  <2> SUFFICES ASSUME ControlInv, PublicationInv,
                      NEW d \in Dates, NEW v \in DOMAIN planningEvent[d]
               PROVE  LET e == planningEvent[d][v]
                      IN \/ \E i \in DOMAIN exchange : exchange[i] = e
                         \/ pc[e.origin] = "publish"
                         \/ answer[e.origin] = "Failed"
    BY DEF UnpublishedWasInterrupted
  <2> DEFINE q == planningEvent[d][v].origin
  <2>1. planningEvent[d][v] \in Event
    BY DEF ControlInv, TypeOK
  <2>2. q \in Requests /\ Stored(q)
    BY <2>1 DEF Event, PlanningCreated, TradingPlanned, TradingFinished, Stored
  <2>3. pc[q] \in {"publish", "done"}
    BY <2>2 DEF ControlInv, TypeOK, Locations, PublicationInv, StoredOnlyByCommit
  <2> QED
    BY <2>2, <2>3 DEF PublicationInv, DoneIsPublished
<1> QED
  BY <1>1, PublicationInvariant, PTL

-----------------------------------------------------------------------------
(* Refinement: a commit is one step of the ledger, every other step is     *)
(* invisible in it.                                                        *)

LEMMA CommitEnters ==
    ASSUME ControlInv, PublicationInv, NEW r \in Requests, StoreEvents(r)
    PROVE  Ledger!Next
<1> DEFINE d == date[r]
<1>1. /\ d \in Dates /\ command[r] \in Commands
      /\ MayHandle(planningEvent[d], command[r])
      /\ planningEvent' =
            [planningEvent EXCEPT
                ![d] = @ \o NewEvents(planningEvent[d], command[r], r)]
  <2>1. command[r] \in Commands
    BY DEF ControlInv, TypeOK
  <2> QED
    BY <2>1, CommitAppends
<1>2. Ledger!Untouched(r)
  <2>1. ~Stored(r)
    BY DEF PublicationInv, StoredOnlyByCommit, StoreEvents
  <2> QED
    BY <2>1 DEF Stored, Ledger!Untouched
<1>3. Ledger!Enter(r, d, command[r])
  BY <1>1, <1>2 DEF Ledger!Enter
<1> QED
  BY <1>1, <1>3 DEF Ledger!Next

\* Whatever the interleaving of requests and their failures, the planning
\* service behaves like a ledger that takes one command at a time.
THEOREM RefinesLedger == Spec => ImplementsLedger
<1>1. Init => Ledger!Init
  BY DEF Init, Ledger!Init
<1>2. ControlInv /\ PublicationInv /\ [Next]_vars => [Ledger!Next]_planningEvent
  <2> SUFFICES ASSUME ControlInv, PublicationInv, [Next]_vars
               PROVE  Ledger!Next \/ planningEvent' = planningEvent
    OBVIOUS
  <2>1. CASE \E r \in Requests : StoreEvents(r)
    BY <2>1, CommitEnters
  <2>2. CASE ~\E r \in Requests : StoreEvents(r)
    BY <2>2, OnlyCommitStores
  <2> QED
    BY <2>1, <2>2
<1> QED
  BY <1>1, <1>2, PublicationInvariant, PTL DEF Spec, ImplementsLedger, Ledger!Spec

-----------------------------------------------------------------------------
(* What the event of a request says, and the order of its publications.    *)

\* A stored event says what the request that raised it was asked.
CarriesItsCommand ==
    \A d \in Dates : \A v \in DOMAIN planningEvent[d] :
        LET q == planningEvent[d][v].origin IN
        /\ q \in Requests /\ date[q] = d
        /\ planningEvent[d][v] \in {Created(q), Raised(command[q], q)}

\* A caller told 201 or 200 has got what it asked for.
SuccessIsStored ==
    \A r \in Requests :
        pc[r] = "publish" \/ answer[r] \in {"Created", "Ok"} =>
            \E v \in DOMAIN planningEvent[date[r]] :
                planningEvent[date[r]][v] = Raised(command[r], r)

AnswersFit ==
    \A r \in Requests :
        answer[r] \in {"NotFound", "Ok"} => command[r].type = "FinishTrading"

\* Two events of one request, in the order in which they must be published.
InOrder(a, b) == a.type = "PortfolioPlanningCreated" /\ b.type = "TradingPlanned"

PublishesInOrder ==
    \A r \in Requests :
        pc[r] = "publish" =>
            /\ \A j \in DOMAIN pending[r] : pending[r][j].origin = r
            /\ \A i, j \in DOMAIN pending[r] :
                  i < j => InOrder(pending[r][i], pending[r][j])
            /\ \A i \in DOMAIN exchange : \A j \in DOMAIN pending[r] :
                  exchange[i].origin = r => InOrder(exchange[i], pending[r][j])

RequestInv == CarriesItsCommand /\ SuccessIsStored /\ AnswersFit

OrderInv == PublishesInOrder /\ PublishedOnceInOrder

LEMMA InitRequest == Init => RequestInv /\ OrderInv
BY DEF Init, RequestInv, CarriesItsCommand, SuccessIsStored, AnswersFit, OrderInv,
       PublishesInOrder, PublishedOnceInOrder

\* The events that a command raises are its own and in their order.
LEMMA NewEventsInOrder ==
    ASSUME NEW s \in Seq(Event), NEW c \in Command, NEW r \in Requests, MayHandle(s, c)
    PROVE  LET t == NewEvents(s, c, r) IN
           /\ \A i \in DOMAIN t : t[i].origin = r /\ t[i] \in {Created(r), Raised(c, r)}
           /\ \E i \in DOMAIN t : t[i] = Raised(c, r)
           /\ \A i, j \in DOMAIN t : i < j => InOrder(t[i], t[j])
<1>1. Raised(c, r).origin = r /\ Created(r).origin = r
  BY DEF Raised, Created
<1>2. CASE DOMAIN s # {}
  <2>1. NewEvents(s, c, r) = <<Raised(c, r)>>
    BY <1>2 DEF NewEvents
  <2> QED
    BY <2>1, <1>1
<1>3. CASE DOMAIN s = {}
  <2>1. NewEvents(s, c, r) = <<Created(r), Raised(c, r)>>
    BY <1>3 DEF NewEvents
  <2>2. ~HasJob(s, c.jobId)
    BY <1>3 DEF HasJob, Jobs
  <2>3. c.type = "PlanTrading"
    BY <2>2 DEF MayHandle, MayFinish, Command, PlanTradingCommand, FinishTradingCommand
  <2>4. InOrder(Created(r), Raised(c, r))
    BY <2>3 DEF InOrder, Created, Raised
  <2> QED
    BY <1>1, <2>1, <2>4
<1> QED
  BY <1>2, <1>3

\* What the steps of a request leave alone.
LEMMA StepFrame ==
    ASSUME TypeOK, [Next]_vars
    PROVE  /\ UNCHANGED <<date, command>>
           /\ \A r \in Requests :
                 /\ answer[r] # "none" /\ pc[r] = "done" => answer'[r] = answer[r]
                 /\ \/ answer'[r] = answer[r]
                    \/ answer'[r] \in {"Conflict", "Concurrency", "Failed"}
                    \/ answer'[r] = "NotFound" /\ command[r].type # "PlanTrading"
                    \/ /\ pc[r] = "publish"
                       /\ answer'[r] = IF command[r].type = "PlanTrading"
                                       THEN "Created" ELSE "Ok"
                 /\ pc'[r] = "publish" => pc[r] = "publish" \/ StoreEvents(r)
<1> USE DEF TypeOK, tables, inputs, Goto, Answer
<1>1. ASSUME NEW q \in Requests,
             \/ LoadPlanning(q) \/ LoadEvents(q) \/ HandleCommand(q)
             \/ SelectPlanning(q) \/ UpdatePlanning(q) \/ InsertPlanning(q)
             \/ PublishEvent(q)
      PROVE  /\ UNCHANGED <<date, command, answer>>
             /\ \A r \in Requests : pc'[r] = "publish" => pc[r] = "publish"
  BY <1>1 DEF LoadPlanning, LoadEvents, HandleCommand, SelectPlanning, UpdatePlanning,
              InsertPlanning, PublishEvent
<1>2. ASSUME NEW q \in Requests, StoreEvents(q)
      PROVE  /\ UNCHANGED <<date, command, answer>>
             /\ \A r \in Requests : pc'[r] = "publish" => pc[r] = "publish" \/ r = q
  BY <1>2 DEF StoreEvents
<1>3. ASSUME NEW q \in Requests,
             \/ MissPlanning(q) \/ RejectCommand(q) \/ UpdateNothing(q)
             \/ InsertDuplicate(q) \/ Respond(q) \/ Fail(q)
      PROVE  /\ UNCHANGED <<date, command>>
             /\ pc[q] # "done" /\ \A r \in Requests \ {q} : pc'[r] = pc[r]
             /\ pc'[q] # "publish"
             /\ \A r \in Requests \ {q} : answer'[r] = answer[r]
             /\ \/ answer'[q] = answer[q]
                \/ answer'[q] \in {"Conflict", "Concurrency", "Failed"}
                \/ answer'[q] = "NotFound" /\ command[q].type # "PlanTrading"
                \/ /\ pc[q] = "publish"
                   /\ answer'[q] = IF command[q].type = "PlanTrading"
                                   THEN "Created" ELSE "Ok"
  BY <1>3 DEF MissPlanning, RejectCommand, UpdateNothing, InsertDuplicate, Respond, Fail
<1>4. CASE UNCHANGED vars
  BY <1>4 DEF vars
<1> QED
  BY <1>1, <1>2, <1>3, <1>4 DEF Next, Step, Finished

LEMMA NextKeepsRequest == ControlInv /\ RequestInv /\ [Next]_vars => RequestInv'
<1> SUFFICES ASSUME ControlInv, RequestInv, [Next]_vars PROVE RequestInv'
  OBVIOUS
<1>1. TypeOK
  BY DEF ControlInv
<1>2. UNCHANGED <<date, command>>
  BY <1>1, StepFrame
<1>3. AnswersFit'
  <2>1. \A r \in Requests : command[r] \in Command
    BY <1>1, CommandsAssumption DEF TypeOK
  <2>2. \A r \in Requests : command[r].type \in {"PlanTrading", "FinishTrading"}
    BY <2>1 DEF Command, PlanTradingCommand, FinishTradingCommand
  <2> QED
    BY <1>1, <1>2, <2>2, StepFrame DEF RequestInv, AnswersFit
<1>4. CASE ~\E r \in Requests : StoreEvents(r)
  <2>1. planningEvent' = planningEvent
    BY <1>4, OnlyCommitStores
  <2>2. CarriesItsCommand'
    BY <1>2, <2>1 DEF RequestInv, CarriesItsCommand
  <2>3. SuccessIsStored'
    <3> SUFFICES ASSUME NEW r \in Requests,
                        pc'[r] = "publish" \/ answer'[r] \in {"Created", "Ok"}
                 PROVE  \E v \in DOMAIN planningEvent[date[r]] :
                            planningEvent[date[r]][v] = Raised(command[r], r)
      BY <1>2, <2>1 DEF SuccessIsStored
    <3>1. pc[r] = "publish" \/ answer[r] \in {"Created", "Ok"}
      BY <1>1, <1>4, StepFrame
    <3> QED
      BY <3>1 DEF RequestInv, SuccessIsStored
  <2> QED
    BY <1>3, <2>2, <2>3 DEF RequestInv
<1>5. ASSUME NEW q \in Requests, StoreEvents(q) PROVE RequestInv'
  <2> DEFINE d == date[q]
             s == planningEvent[d]
             t == pending[q]
  <2>1. /\ d \in Dates /\ s \in Seq(Event) /\ t \in Seq(Event)
        /\ planningEvent'[d] = s \o t
        /\ \A x \in Dates : x # d => planningEvent'[x] = planningEvent[x]
    <3>1. /\ d \in Dates /\ t \in Seq(Event)
          /\ planningEvent' = [planningEvent EXCEPT ![d] = s \o t]
      BY <1>5, CommitAppends
    <3>2. DOMAIN planningEvent = Dates /\ \A x \in Dates : planningEvent[x] \in Seq(Event)
      BY <1>1 DEF TypeOK
    <3> QED
      BY <3>1, <3>2
  <2>2. /\ \A i \in DOMAIN t : /\ t[i].origin = q
                                /\ t[i] \in {Created(q), Raised(command[q], q)}
        /\ \E i \in DOMAIN t : t[i] = Raised(command[q], q)
    <3>1. command[q] \in Command
      BY <1>1, CommandsAssumption DEF TypeOK
    <3>2. /\ MayHandle(s, command[q])
          /\ t = NewEvents(s, command[q], q)
      BY <1>5, CommitAppends
    <3> QED
      BY <2>1, <3>1, <3>2, NewEventsInOrder
  <2>3. /\ \A d1 \in Dates : \A v \in DOMAIN planningEvent[d1] :
              /\ v \in DOMAIN planningEvent'[d1]
              /\ planningEvent'[d1][v] = planningEvent[d1][v]
        /\ \A d1 \in Dates : \A v \in DOMAIN planningEvent'[d1] :
              \/ /\ v \in DOMAIN planningEvent[d1]
                 /\ planningEvent'[d1][v] = planningEvent[d1][v]
              \/ /\ \E i \in DOMAIN pending[q] :
                       planningEvent'[d1][v] = pending[q][i]
                 /\ planningEvent'[d1][v].origin = q
    BY <1>5, CommitStores
  <2>4. CarriesItsCommand'
    <3> SUFFICES ASSUME NEW x \in Dates, NEW v \in DOMAIN planningEvent'[x]
                 PROVE  LET o == planningEvent'[x][v].origin IN
                        /\ o \in Requests /\ date[o] = x
                        /\ planningEvent'[x][v] \in {Created(o), Raised(command[o], o)}
      BY <1>2 DEF CarriesItsCommand
    <3>1. CASE /\ v \in DOMAIN planningEvent[x]
               /\ planningEvent'[x][v] = planningEvent[x][v]
      BY <3>1 DEF RequestInv, CarriesItsCommand
    <3>2. CASE x = d /\ ~(/\ v \in DOMAIN planningEvent[x]
                          /\ planningEvent'[x][v] = planningEvent[x][v])
      BY <2>2, <2>3, <3>2
    <3>3. x # d => planningEvent'[x] = planningEvent[x]
      BY <2>1
    <3> QED
      BY <3>1, <3>2, <3>3
  <2>5. SuccessIsStored'
    <3> SUFFICES ASSUME NEW r \in Requests,
                        pc'[r] = "publish" \/ answer'[r] \in {"Created", "Ok"}
                 PROVE  \E v \in DOMAIN planningEvent'[date[r]] :
                            planningEvent'[date[r]][v] = Raised(command[r], r)
      BY <1>2 DEF SuccessIsStored
    <3>1. CASE r = q
      <4>1. PICK i \in DOMAIN t : t[i] = Raised(command[q], q)
        BY <2>2
      <4>2. \A a, b \in Seq(Event) : \A j \in DOMAIN b :
               Len(a) + j \in DOMAIN (a \o b) /\ (a \o b)[Len(a) + j] = b[j]
        OBVIOUS
      <4> HIDE DEF s, t
      <4>3. Len(s) + i \in DOMAIN (s \o t) /\ (s \o t)[Len(s) + i] = t[i]
        BY <2>1, <4>2
      <4>4. planningEvent'[date[r]] = s \o t
        BY <2>1, <3>1
      <4> QED
        BY <3>1, <4>1, <4>3, <4>4
    <3>2. CASE r # q
      <4>1. pc[r] = "publish" \/ answer[r] \in {"Created", "Ok"}
        BY <1>1, <1>5, <3>2 DEF StoreEvents, Goto, TypeOK
      <4>2. date[r] \in Dates
        BY <1>1 DEF TypeOK
      <4> QED
        BY <2>3, <4>1, <4>2 DEF RequestInv, SuccessIsStored
    <3> QED
      BY <3>1, <3>2
  <2> QED
    BY <1>3, <2>4, <2>5 DEF RequestInv
<1> QED
  BY <1>4, <1>5

LEMMA RequestInvariant == Spec => [](ControlInv /\ PublicationInv /\ RequestInv)
BY InitControl, InitPublication, InitRequest, NextKeepsControl, NextKeepsPublication,
   NextKeepsRequest, PTL DEF Spec

LEMMA NextKeepsOrder ==
    ControlInv /\ PublicationInv /\ OrderInv /\ [Next]_vars => OrderInv'
<1> SUFFICES ASSUME ControlInv, PublicationInv, OrderInv, [Next]_vars PROVE OrderInv'
  OBVIOUS
<1>1. TypeOK
  BY DEF ControlInv
<1>2. ASSUME NEW q \in Requests, StoreEvents(q) PROVE OrderInv'
  <2>1. /\ pc[q] = "store" /\ pc' = [pc EXCEPT ![q] = "publish"]
        /\ UNCHANGED <<pending, exchange>>
    BY <1>2 DEF StoreEvents, Goto
  <2>2. /\ \A j \in DOMAIN pending[q] : pending[q][j].origin = q
        /\ \A i, j \in DOMAIN pending[q] : i < j => InOrder(pending[q][i], pending[q][j])
    <3>1. /\ command[q] \in Command /\ planningEvent[date[q]] \in Seq(Event)
      BY <1>1, CommandsAssumption DEF TypeOK
    <3>2. /\ MayHandle(planningEvent[date[q]], command[q])
          /\ pending[q] = NewEvents(planningEvent[date[q]], command[q], q)
      BY <1>2, CommitAppends
    <3> QED
      BY <3>1, <3>2, NewEventsInOrder
  <2>3. \A i \in DOMAIN exchange : exchange[i].origin # q
    BY <2>1 DEF PublicationInv, PublishedIsStored, StoredOnlyByCommit, Stored
  <2> QED
    BY <1>1, <2>1, <2>2, <2>3 DEF OrderInv, PublishesInOrder, PublishedOnceInOrder, TypeOK
<1>3. ASSUME NEW q \in Requests, PublishEvent(q) PROVE OrderInv'
  <2> DEFINE p == pending[q]
             e == Head(p)
             n == Len(exchange)
  <2>1. /\ pc[q] = "publish" /\ p # << >> /\ pc' = pc
        /\ exchange' = Append(exchange, e)
        /\ pending' = [pending EXCEPT ![q] = Tail(p)]
        /\ p \in Seq(Event) /\ exchange \in Seq(Event)
        /\ pending \in [Requests -> Seq(Event)]
    BY <1>1, <1>3 DEF PublishEvent, TypeOK
  <2>2. /\ e = p[1] /\ 1 \in DOMAIN p
        /\ \A j \in DOMAIN Tail(p) : /\ j \in Nat \ {0} /\ j + 1 \in DOMAIN p
                                      /\ Tail(p)[j] = p[j + 1]
    BY <2>1
  <2>3. /\ n \in Nat /\ DOMAIN exchange = 1 .. n /\ DOMAIN exchange' = 1 .. n + 1
        /\ exchange'[n + 1] = e
        /\ \A i \in 1 .. n : exchange'[i] = exchange[i]
    <3>1. e \in Event
      BY <2>1, <2>2
    <3> QED
      BY <2>1, <3>1
  <2>4. /\ \A j \in DOMAIN p : p[j].origin = q
        /\ \A i, j \in DOMAIN p : i < j => InOrder(p[i], p[j])
        /\ \A i \in DOMAIN exchange : \A j \in DOMAIN p :
              exchange[i].origin = q => InOrder(exchange[i], p[j])
    BY <2>1 DEF OrderInv, PublishesInOrder
  <2> HIDE DEF p, e, n
  <2>5. \A j \in DOMAIN Tail(p) : InOrder(e, Tail(p)[j])
    BY <2>2, <2>4
  <2>6. PublishesInOrder'
    <3> SUFFICES ASSUME NEW r \in Requests, pc[r] = "publish"
                 PROVE  /\ \A j \in DOMAIN pending'[r] : pending'[r][j].origin = r
                        /\ \A i, j \in DOMAIN pending'[r] :
                              i < j => InOrder(pending'[r][i], pending'[r][j])
                        /\ \A i \in DOMAIN exchange' : \A j \in DOMAIN pending'[r] :
                              exchange'[i].origin = r
                              => InOrder(exchange'[i], pending'[r][j])
      BY <2>1 DEF PublishesInOrder, InOrder
    <3>1. CASE r = q
      <4>1. pending'[r] = Tail(p)
        BY <2>1, <3>1
      <4>2. \A i, j \in DOMAIN Tail(p) : i < j => InOrder(Tail(p)[i], Tail(p)[j])
        BY <2>2, <2>4
      <4>3. \A i \in 1 .. n : \A j \in DOMAIN Tail(p) :
               exchange[i].origin = q => InOrder(exchange[i], Tail(p)[j])
        BY <2>2, <2>3, <2>4
      <4>4. \A i \in DOMAIN exchange' : \A j \in DOMAIN Tail(p) :
               exchange'[i].origin = q => InOrder(exchange'[i], Tail(p)[j])
        BY <2>3, <2>5, <4>3
      <4> QED
        BY <2>2, <2>4, <3>1, <4>1, <4>2, <4>4
    <3>2. CASE r # q
      <4>1. pending'[r] = pending[r]
        BY <2>1, <3>2
      <4>2. e.origin # r
        BY <2>2, <2>4, <3>2
      <4> QED
        BY <2>3, <4>1, <4>2 DEF OrderInv, PublishesInOrder
    <3> QED
      BY <3>1, <3>2
  <2>7. PublishedOnceInOrder'
    <3> SUFFICES ASSUME NEW i \in DOMAIN exchange', NEW j \in DOMAIN exchange', i < j,
                        exchange'[i].origin = exchange'[j].origin
                 PROVE  InOrder(exchange'[i], exchange'[j])
      BY DEF PublishedOnceInOrder, InOrder
    <3>1. CASE j \in 1 .. n
      <4>1. /\ i \in DOMAIN exchange /\ exchange'[i] = exchange[i]
            /\ j \in DOMAIN exchange /\ exchange'[j] = exchange[j]
        BY <2>3, <3>1
      <4> QED
        BY <4>1 DEF OrderInv, PublishedOnceInOrder, InOrder
    <3>2. CASE j = n + 1
      <4>1. i \in 1 .. n /\ exchange'[i] = exchange[i] /\ exchange'[j] = e
        BY <2>3, <3>2
      <4>2. e = p[1] /\ 1 \in DOMAIN p /\ e.origin = q
        BY <2>2, <2>4
      <4> QED
        BY <2>3, <2>4, <4>1, <4>2
    <3> QED
      BY <2>3, <3>1, <3>2
  <2> QED
    BY <2>6, <2>7 DEF OrderInv
<1>4. CASE ~\E q \in Requests : StoreEvents(q) \/ PublishEvent(q)
  <2>1. exchange' = exchange
    BY <1>4 DEF Next, Step, Finished, vars, LoadPlanning, MissPlanning, LoadEvents,
           HandleCommand, RejectCommand, SelectPlanning, UpdatePlanning, UpdateNothing,
           InsertPlanning, InsertDuplicate, Respond, Fail
  <2>2. ASSUME NEW r \in Requests, pc'[r] = "publish"
        PROVE  pc[r] = "publish" /\ pending'[r] = pending[r]
    <3>1. pc[r] = "publish"
      BY <1>1, <1>4, <2>2, StepFrame
    <3>2. ASSUME NEW q \in Requests, HandleCommand(q) PROVE pending'[r] = pending[r]
      <4>1. q # r
        BY <3>1, <3>2 DEF HandleCommand
      <4>2. /\ pending' = [pending EXCEPT ![q] = NewEvents(loaded[q], command[q], q)]
            /\ DOMAIN pending = Requests
        BY <1>1, <3>2 DEF HandleCommand, TypeOK
      <4> QED
        BY <4>1, <4>2
    <3>3. CASE ~\E q \in Requests : HandleCommand(q)
      <4>1. pending' = pending
        BY <1>4, <3>3 DEF Next, Step, Finished, vars, LoadPlanning, MissPlanning,
               LoadEvents, RejectCommand, SelectPlanning, UpdatePlanning, UpdateNothing,
               InsertPlanning, InsertDuplicate, Respond, Fail
      <4> QED
        BY <3>1, <4>1
    <3> QED
      BY <3>1, <3>2, <3>3
  <2>3. PublishesInOrder'
    BY <2>1, <2>2 DEF OrderInv, PublishesInOrder, InOrder
  <2> QED
    BY <2>1, <2>3 DEF OrderInv, PublishedOnceInOrder
<1> QED
  BY <1>2, <1>3, <1>4

\* No event is published twice, and the creation of a planning goes before the
\* job that was planned with it.
THEOREM PublishedOnce == Spec => []PublishedOnceInOrder
<1>1. OrderInv => PublishedOnceInOrder
  BY DEF OrderInv
<1> QED
  BY <1>1, InitControl, InitPublication, InitRequest, NextKeepsControl,
     NextKeepsPublication, NextKeepsOrder, PTL DEF Spec

-----------------------------------------------------------------------------
(* Towards EveryRequestAnswered: nobody waits for a request that waits, and *)
(* a request has only so many steps to take.  What is left to believe is   *)
(* that the fairness of Step takes the steps that can be taken.            *)

HolderCommits ==
    \A d \in Dates :
        lock[d] # NoRequest => pc[lock[d]] = "store" /\ date[lock[d]] = d

\* The guards of Step(r) at each of its awaits.
CanStep(r) ==
    \/ pc[r] \in {"replay", "handle", "publish"}
    \/ pc[r] \in {"load", "save", "update", "insert"} /\ Unlocked(date[r])
    \/ /\ pc[r] = "store"
       /\ Versions(OriginalVersion(r), pending[r]) \cap DOMAIN planningEvent[date[r]] = {}

StepsFrom == [load |-> 9, replay |-> 8, handle |-> 7, save |-> 4, update |-> 3,
              insert |-> 3, store |-> 2, publish |-> 1, done |-> 0]

\* At most so many steps of its own are left to a request.
Remaining(r) ==
    StepsFrom[pc[r]] + IF pc[r] \in {"load", "replay", "handle", "done"} THEN 0
                       ELSE Len(pending[r])

LEMMA NextKeepsHolder == ControlInv /\ HolderCommits /\ [Next]_vars => HolderCommits'
<1> SUFFICES ASSUME ControlInv, HolderCommits, [Next]_vars PROVE HolderCommits'
  OBVIOUS
<1> USE DEF tables, inputs, Goto, Answer
<1>1. TypeOK
  BY DEF ControlInv
<1>2. UNCHANGED date
  BY <1>1, StepFrame
<1>3. ASSUME NEW r \in Requests, pc[r] # "store", UNCHANGED lock,
             \A q \in Requests \ {r} : pc'[q] = pc[q]
      PROVE  HolderCommits'
  BY <1>1, <1>2, <1>3 DEF HolderCommits, TypeOK
<1>4. ASSUME NEW r \in Requests,
             \/ LoadPlanning(r) \/ MissPlanning(r) \/ LoadEvents(r)
             \/ HandleCommand(r) \/ RejectCommand(r) \/ SelectPlanning(r)
             \/ UpdateNothing(r) \/ InsertDuplicate(r)
             \/ PublishEvent(r) \/ Respond(r)
      PROVE  HolderCommits'
  <2>1. /\ pc[r] # "store" /\ UNCHANGED lock
        /\ \A q \in Requests \ {r} : pc'[q] = pc[q]
    BY <1>1, <1>4 DEF LoadPlanning, MissPlanning, LoadEvents, HandleCommand,
           RejectCommand, SelectPlanning, UpdateNothing, InsertDuplicate,
           PublishEvent, Respond, TypeOK
  <2> QED
    BY <1>3, <2>1
<1>5. ASSUME NEW r \in Requests, UpdatePlanning(r) \/ InsertPlanning(r)
      PROVE  HolderCommits'
  <2>1. /\ pc[r] \in {"update", "insert"} /\ lock' = [lock EXCEPT ![date[r]] = r]
        /\ pc' = [pc EXCEPT ![r] = "store"]
    BY <1>5 DEF UpdatePlanning, InsertPlanning
  <2> QED
    BY <1>1, <1>2, <2>1 DEF HolderCommits, TypeOK
<1>6. ASSUME NEW r \in Requests, StoreEvents(r) PROVE HolderCommits'
  <2>1. /\ pc[r] = "store" /\ lock' = [lock EXCEPT ![date[r]] = NoRequest]
        /\ pc' = [pc EXCEPT ![r] = "publish"]
    BY <1>6 DEF StoreEvents
  <2>2. lock[date[r]] = r
    BY <2>1 DEF ControlInv, CommitterIsUpToDate
  <2> QED
    BY <1>1, <1>2, <2>1, <2>2 DEF HolderCommits, TypeOK
<1>7. ASSUME NEW r \in Requests, Fail(r) PROVE HolderCommits'
  <2>1. /\ lock' = [d \in Dates |-> IF lock[d] = r THEN NoRequest ELSE lock[d]]
        /\ pc' = [pc EXCEPT ![r] = "done"]
    BY <1>7 DEF Fail
  <2> QED
    BY <1>1, <1>2, <2>1 DEF HolderCommits, TypeOK
<1>8. CASE UNCHANGED vars
  BY <1>8 DEF HolderCommits, vars
<1> QED
  BY <1>4, <1>5, <1>6, <1>7, <1>8 DEF Next, Step, Finished

\* A request that is not done can go on, or the one that holds its row can:
\* the primary key refuses nothing, and there is no circle of waiting.
THEOREM NobodyWaitsForAWaiter ==
    Spec => [](\A r \in Requests :
                  pc[r] # "done" => \/ CanStep(r)
                                    \/ \E q \in Requests : /\ lock[date[r]] = q
                                                           /\ pc[q] = "store"
                                                           /\ CanStep(q))
<1>1. ControlInv /\ HolderCommits
      => \A r \in Requests :
            pc[r] # "done" => \/ CanStep(r)
                              \/ \E q \in Requests : /\ lock[date[r]] = q
                                                     /\ pc[q] = "store"
                                                     /\ CanStep(q)
  <2> SUFFICES ASSUME ControlInv, HolderCommits, NEW r \in Requests, pc[r] # "done",
                      ~CanStep(r)
               PROVE  \E q \in Requests : /\ lock[date[r]] = q
                                          /\ pc[q] = "store"
                                          /\ CanStep(q)
    OBVIOUS
  <2>1. TypeOK
    BY DEF ControlInv
  <2>2. ASSUME NEW q \in Requests, pc[q] = "store" PROVE CanStep(q)
    <3> DEFINE s == planningEvent[date[q]]
    <3>1. /\ loaded[q] \in Seq(Event) /\ s \in Seq(Event) /\ pending[q] \in Seq(Event)
          /\ Len(loaded[q]) = Len(s)
      BY <2>1, <2>2 DEF TypeOK, ControlInv, CommitterIsUpToDate
    <3>2. OriginalVersion(q) = Len(s)
      BY <3>1, VersionIsLength DEF OriginalVersion
    <3>3. Versions(OriginalVersion(q), pending[q]) \cap DOMAIN s = {}
      <4> HIDE DEF s
      <4> QED
        BY <3>1, <3>2 DEF Versions
    <3> QED
      BY <2>2, <3>3 DEF CanStep
  <2>3. pc[r] \in {"load", "save", "update", "insert"}
    BY <2>1, <2>2 DEF TypeOK, Locations, CanStep
  <2>4. lock[date[r]] # NoRequest /\ date[r] \in Dates
    BY <2>1, <2>3 DEF CanStep, Unlocked, TypeOK
  <2>5. lock[date[r]] \in Requests /\ pc[lock[date[r]]] = "store"
    BY <2>1, <2>4 DEF TypeOK, HolderCommits
  <2> QED
    BY <2>2, <2>5
<1>2. Init => HolderCommits
  BY DEF Init, HolderCommits
<1> QED
  BY <1>1, <1>2, InitControl, NextKeepsControl, NextKeepsHolder, PTL DEF Spec

\* Every step of a request leaves it fewer, and no step of another, nor a
\* failure, leaves it more: from 9, it takes at most nine.
THEOREM StepsRunOut ==
    Spec => [][\A r \in Requests :
                  /\ Remaining(r) \in Nat /\ Remaining(r)' \in Nat
                  /\ Remaining(r)' <= Remaining(r)
                  /\ Step(r) => Remaining(r)' < Remaining(r)]_vars
<1> USE DEF tables, inputs, Goto, Answer
<1>1. ASSUME TypeOK, NEW r \in Requests PROVE Remaining(r) \in Nat
  BY <1>1 DEF TypeOK, Locations, Remaining, StepsFrom
<1>2. ASSUME TypeOK, TypeOK', NEW r \in Requests, Step(r)
      PROVE  /\ Remaining(r)' < Remaining(r)
             /\ \A q \in Requests \ {r} : pc'[q] = pc[q] /\ pending'[q] = pending[q]
  <2> USE <1>2
  <2>1. CASE HandleCommand(r)
    <3> DEFINE n == Len(NewEvents(loaded[r], command[r], r))
    <3>1. n \in {1, 2}
      BY DEF NewEvents
    <3>2. /\ pc[r] = "handle" /\ pc' = [pc EXCEPT ![r] = "save"]
          /\ pending' = [pending EXCEPT ![r] = NewEvents(loaded[r], command[r], r)]
      BY <2>1 DEF HandleCommand
    <3>3. Remaining(r)' = 4 + n /\ Remaining(r) = 7
      BY <3>2 DEF Remaining, StepsFrom, TypeOK
    <3> HIDE DEF n
    <3> QED
      BY <3>1, <3>2, <3>3 DEF TypeOK
  <2>2. CASE PublishEvent(r)
    <3>1. /\ pc[r] = "publish" /\ pending[r] # << >> /\ pc' = pc
          /\ pending' = [pending EXCEPT ![r] = Tail(pending[r])]
          /\ pending \in [Requests -> Seq(Event)]
      BY <2>2 DEF PublishEvent, TypeOK
    <3>2. Len(Tail(pending[r])) < Len(pending[r])
      <4>1. \A s \in Seq(Event) : s # << >> => Len(Tail(s)) < Len(s)
        OBVIOUS
      <4> QED
        BY <3>1, <4>1
    <3>3. /\ Remaining(r)' = 1 + Len(Tail(pending[r]))
          /\ Remaining(r) = 1 + Len(pending[r])
      BY <3>1 DEF Remaining, StepsFrom
    <3>4. Len(Tail(pending[r])) \in Nat /\ Len(pending[r]) \in Nat
      BY <3>1
    <3> QED
      BY <3>1, <3>2, <3>3, <3>4
  <2>3. CASE \/ LoadPlanning(r) \/ MissPlanning(r) \/ LoadEvents(r)
             \/ RejectCommand(r) \/ SelectPlanning(r)
             \/ UpdatePlanning(r) \/ UpdateNothing(r)
             \/ InsertPlanning(r) \/ InsertDuplicate(r)
             \/ StoreEvents(r) \/ Respond(r)
    <3>1. /\ pending' = pending /\ pending[r] \in Seq(Event)
          /\ \A q \in Requests \ {r} : pc'[q] = pc[q]
      BY <2>3 DEF LoadPlanning, MissPlanning, LoadEvents, RejectCommand,
             SelectPlanning, UpdatePlanning, UpdateNothing, InsertPlanning,
             InsertDuplicate, StoreEvents, Respond, TypeOK
    <3>2. \/ pc[r] = "load" /\ pc'[r] \in {"replay", "handle", "done"}
          \/ pc[r] = "replay" /\ pc'[r] = "handle"
          \/ pc[r] = "handle" /\ pc'[r] = "done"
          \/ pc[r] = "save" /\ pc'[r] \in {"update", "insert"}
          \/ pc[r] \in {"update", "insert"} /\ pc'[r] \in {"store", "done"}
          \/ pc[r] = "store" /\ pc'[r] = "publish"
          \/ pc[r] = "publish" /\ pc'[r] = "done"
      BY <2>3 DEF LoadPlanning, MissPlanning, LoadEvents, RejectCommand,
             SelectPlanning, UpdatePlanning, UpdateNothing, InsertPlanning,
             InsertDuplicate, StoreEvents, Respond, TypeOK
    <3>3. Len(pending[r]) \in Nat /\ pending'[r] = pending[r]
      BY <3>1
    <3> DEFINE n == Len(pending[r])
    <3>4. \A k \in Nat : 3 + k < 4 + k /\ 2 + k < 3 + k /\ 1 + k < 2 + k /\ 0 < 1 + k
                          /\ 0 < 3 + k
      OBVIOUS
    <3>5. /\ pc[r] = "load" => Remaining(r) = 9
          /\ pc[r] = "replay" => Remaining(r) = 8
          /\ pc[r] = "handle" => Remaining(r) = 7
          /\ pc[r] = "save" => Remaining(r) = 4 + n
          /\ pc[r] \in {"update", "insert"} => Remaining(r) = 3 + n
          /\ pc[r] = "store" => Remaining(r) = 2 + n
          /\ pc[r] = "publish" => Remaining(r) = 1 + n
      BY <3>3 DEF Remaining, StepsFrom
    <3>6. /\ pc'[r] = "replay" => Remaining(r)' = 8
          /\ pc'[r] = "handle" => Remaining(r)' = 7
          /\ pc'[r] \in {"update", "insert"} => Remaining(r)' = 3 + n
          /\ pc'[r] = "store" => Remaining(r)' = 2 + n
          /\ pc'[r] = "publish" => Remaining(r)' = 1 + n
          /\ pc'[r] = "done" => Remaining(r)' = 0
      BY <3>3 DEF Remaining, StepsFrom
    <3>7. n \in Nat
      BY <3>3
    <3> HIDE DEF n
    <3>8. Remaining(r)' < Remaining(r)
      BY <3>2, <3>4, <3>5, <3>6, <3>7
    <3> QED
      BY <3>1, <3>8
  <2> QED
    BY <2>1, <2>2, <2>3 DEF Step
<1>3. ASSUME TypeOK, TypeOK', [Next]_vars, NEW r \in Requests
      PROVE  /\ Remaining(r) \in Nat /\ Remaining(r)' \in Nat
             /\ Remaining(r)' <= Remaining(r)
             /\ Step(r) => Remaining(r)' < Remaining(r)
  <2>1. Remaining(r) \in Nat
    BY <1>1, <1>3
  <2>2. Remaining(r)' \in Nat
    <3>1. pc'[r] \in Locations /\ pending'[r] \in Seq(Event)
      BY <1>3 DEF TypeOK
    <3>2. Len(pending'[r]) \in Nat
      BY <3>1
    <3> QED
      BY <3>1, <3>2 DEF Locations, Remaining, StepsFrom
  <2>3. Step(r) => Remaining(r)' < Remaining(r)
    BY <1>2, <1>3
  <2>4. ASSUME pc'[r] = pc[r], pending'[r] = pending[r]
        PROVE  Remaining(r)' = Remaining(r)
    BY <2>4 DEF Remaining
  <2>5. ASSUME NEW q \in Requests, Fail(q) PROVE Remaining(r)' <= Remaining(r)
    <3>1. CASE q = r
      <4>1. pc'[r] = "done"
        BY <1>3, <2>5, <3>1 DEF Fail, TypeOK
      <4>2. Remaining(r)' = 0
        BY <4>1 DEF Remaining, StepsFrom
      <4> QED
        BY <2>1, <4>2
    <3>2. CASE q # r
      <4>1. pc'[r] = pc[r] /\ pending'[r] = pending[r]
        BY <1>3, <2>5, <3>2 DEF Fail, TypeOK
      <4> QED
        BY <2>1, <2>4, <4>1
    <3> QED
      BY <3>1, <3>2
  <2>6. ASSUME NEW q \in Requests \ {r}, Step(q) PROVE Remaining(r)' <= Remaining(r)
    BY <1>2, <1>3, <2>1, <2>4, <2>6
  <2>7. ASSUME UNCHANGED vars PROVE Remaining(r)' <= Remaining(r)
    <3>1. pc' = pc /\ pending' = pending
      BY <2>7 DEF vars
    <3>2. Remaining(r)' = Remaining(r)
      BY <2>4, <3>1
    <3> QED
      BY <2>1, <3>2
  <2>8. CASE Step(r)
    BY <2>1, <2>2, <2>3, <2>8
  <2>9. (\E q \in Requests : Step(q) \/ Fail(q)) \/ UNCHANGED vars
    BY <1>3 DEF Next, Finished
  <2>10. Remaining(r)' <= Remaining(r)
    BY <2>5, <2>6, <2>7, <2>8, <2>9
  <2> QED
    BY <2>1, <2>2, <2>3, <2>10
<1>4. TypeOK /\ TypeOK' /\ [Next]_vars
      => [\A r \in Requests :
             /\ Remaining(r) \in Nat /\ Remaining(r)' \in Nat
             /\ Remaining(r)' <= Remaining(r)
             /\ Step(r) => Remaining(r)' < Remaining(r)]_vars
  BY <1>3
<1> QED
  BY <1>4, TypeCorrect, PTL DEF Spec

=============================================================================
