---------------- MODULE PortfolioManagementEventHandler_proofs ----------------
(***************************************************************************)
(* Proofs about PortfolioManagementEventHandler, for any clients, stocks,  *)
(* jobs, messages and number of failures.                                  *)
(***************************************************************************)
EXTENDS PortfolioManagementEventHandler, SequenceTheorems, TLAPS

(***************************************************************************)
(* The inductive invariant.                                                *)
(***************************************************************************)

\* The open connection is at the head of the queue.
HandlesHead ==
    handling[channel] # Nothing => queue # << >> /\ Head(queue) = handling[channel]

QueueType ==
    /\ queue \in Seq(Announcements)
    /\ channel \in Handlers
    /\ handling \in [Handlers -> Announcements \cup {Nothing}]
    /\ pc \in [Handlers -> Locations]
    /\ announced \subseteq Announcements
    /\ failures \in Nat
    /\ \A h \in Handlers : pc[h] = "idle" <=> handling[h] = Nothing
    /\ HandlesHead

TableType == DOMAIN db \subseteq Keys /\ \A k \in DOMAIN db : db[k] \in RowOf(k)

EntityType(es) ==
    /\ DOMAIN es \subseteq Keys
    /\ \A k \in DOMAIN es : es[k] \in Entities /\ es[k].row \in RowOf(k)

\* The jobs among the entities es refer to keys of ks.
Refers(es, ks) ==
    \A j \in DOMAIN es \cap Jobs : {es[j].row.client, es[j].row.stock} \subseteq ks \cup {Nothing}

Agrees(es) ==
    \A k \in DOMAIN es :
        /\ es[k].state # "Added" => k \in DOMAIN db
        /\ es[k].state = "Unchanged" => db[k] = es[k].row
        /\ es[k].state = "Modified" => FinishedAtMost(db[k], es[k].row)

\* What a DbContext over the tables may track.
Sound(es) == EntityType(es) /\ Agrees(es) /\ Refers(es, DOMAIN es \cup DOMAIN db)

ReadInv == QueueType /\ TableType /\ ReferencesExist /\ Sound(context)

-----------------------------------------------------------------------------
(* Entity Framework.                                                       *)

LEMMA RowTypes ==
    /\ \A k \in Clients : RowOf(k) = Client
    /\ \A k \in Stocks : RowOf(k) = Stock
    /\ \A k \in Jobs : RowOf(k) = Trading
    /\ \A k \in Keys : RowOf(k) \subseteq Rows
BY KeysAssumption DEF RowOf, Keys, Rows

LEMMA QueriedIsSound ==
    ASSUME TableType, ReferencesExist, Sound(context), NEW ks \in SUBSET Keys
    PROVE  /\ Sound(Queried(ks))
           /\ DOMAIN Queried(ks) = DOMAIN context \cup (ks \cap DOMAIN db)
           /\ \A k \in DOMAIN context : Queried(ks)[k] = context[k]
           /\ \A k \in (ks \cap DOMAIN db) \ DOMAIN context :
                 Queried(ks)[k] = [row |-> db[k], state |-> "Unchanged"]
<1> DEFINE X == Queried(ks)
<1>1. /\ DOMAIN X = DOMAIN context \cup (ks \cap DOMAIN db)
      /\ \A k \in DOMAIN context : X[k] = context[k]
      /\ \A k \in (ks \cap DOMAIN db) \ DOMAIN context :
            X[k] = [row |-> db[k], state |-> "Unchanged"]
  BY DEF Queried, Track
<1> HIDE DEF X
<1>2. EntityType(X)
  <2>1. \A k \in DOMAIN db :
           /\ [row |-> db[k], state |-> "Unchanged"] \in Entities
           /\ [row |-> db[k], state |-> "Unchanged"].row \in RowOf(k)
    BY RowTypes DEF TableType, Entities
  <2> QED
    BY <1>1, <2>1 DEF EntityType, Sound
<1>3. \A k \in DOMAIN X :
         \/ k \in DOMAIN context /\ X[k] = context[k]
         \/ k \in DOMAIN db /\ X[k].row = db[k] /\ X[k].state = "Unchanged"
  <2>1. \A k \in (ks \cap DOMAIN db) \ DOMAIN context :
           X[k].row = db[k] /\ X[k].state = "Unchanged"
    <3> TAKE k \in (ks \cap DOMAIN db) \ DOMAIN context
    <3>1. X[k] = [row |-> db[k], state |-> "Unchanged"]
      BY <1>1
    <3> QED
      BY <3>1
  <2> QED
    BY <1>1, <2>1
<1>4. Agrees(X)
  BY <1>3 DEF Agrees, Sound
<1>5. Refers(X, DOMAIN X \cup DOMAIN db)
  <2> SUFFICES ASSUME NEW j \in DOMAIN X \cap Jobs
               PROVE  {X[j].row.client, X[j].row.stock}
                         \subseteq DOMAIN X \cup DOMAIN db \cup {Nothing}
    BY DEF Refers
  <2>1. CASE j \in DOMAIN context /\ X[j] = context[j]
    BY <1>1, <2>1 DEF Sound, Refers
  <2>2. CASE j \in DOMAIN db /\ X[j].row = db[j]
    BY <2>2 DEF ReferencesExist
  <2> QED
    BY <1>3, <2>1, <2>2
<1> QED
  BY <1>1, <1>2, <1>4, <1>5 DEF Sound, X

\* Entities to be inserted, next to those that are tracked.
LEMMA TrackIsSound ==
    ASSUME NEW X, Sound(X), NEW es, EntityType(es), DOMAIN es \cap DOMAIN X = {},
           \A k \in DOMAIN es : es[k].state = "Added",
           Refers(es, DOMAIN X \cup DOMAIN es \cup DOMAIN db)
    PROVE  /\ Sound(Track(X, es))
           /\ DOMAIN Track(X, es) = DOMAIN X \cup DOMAIN es
           /\ \A k \in DOMAIN X : Track(X, es)[k] = X[k]
           /\ \A k \in DOMAIN es : Track(X, es)[k] = es[k]
<1> DEFINE T == Track(X, es)
<1>1. /\ DOMAIN T = DOMAIN X \cup DOMAIN es
      /\ \A k \in DOMAIN X : T[k] = X[k]
      /\ \A k \in DOMAIN es : T[k] = es[k]
  BY DEF Track
<1> HIDE DEF T
<1>2. EntityType(T)
  BY <1>1 DEF EntityType, Sound
<1>3. Agrees(T)
  BY <1>1 DEF Agrees, Sound
<1>4. Refers(T, DOMAIN T \cup DOMAIN db)
  BY <1>1 DEF Refers, Sound
<1> QED
  BY <1>1, <1>2, <1>3, <1>4 DEF Sound, T

LEMMA NewEntity ==
    ASSUME NEW k \in Keys, NEW row \in RowOf(k)
    PROVE  /\ EntityType(New(k, row))
           /\ DOMAIN New(k, row) = {k}
           /\ New(k, row)[k] = [row |-> row, state |-> "Added"]
           /\ New(k, row)[k].row = row
           /\ New(k, row)[k].state = "Added"
           /\ \A i \in DOMAIN New(k, row) : New(k, row)[i].state = "Added"
<1>1. [row |-> row, state |-> "Added"] \in Entities
  BY RowTypes DEF Entities
<1> QED
  BY <1>1 DEF EntityType, New

\* One entity added, that refers to what is there.
LEMMA AddIsSound ==
    ASSUME NEW X, Sound(X), NEW k \in Keys \ DOMAIN X, NEW row \in RowOf(k),
           k \in Jobs => {row.client, row.stock}
                            \subseteq DOMAIN X \cup DOMAIN db \cup {Nothing}
    PROVE  /\ Sound(Track(X, New(k, row)))
           /\ DOMAIN Track(X, New(k, row)) = DOMAIN X \cup {k}
           /\ Track(X, New(k, row))[k].state = "Added"
           /\ \A i \in DOMAIN X : Track(X, New(k, row))[i] = X[i]
<1> DEFINE es == New(k, row)
<1>1. /\ EntityType(es)
      /\ DOMAIN es = {k}
      /\ es[k].state = "Added"
      /\ es[k].row = row
  <2>1. k \in Keys /\ row \in RowOf(k)
    OBVIOUS
  <2> QED
    BY <2>1, NewEntity, Zenon
<1> HIDE DEF es
<1>2. /\ Refers(es, DOMAIN X \cup DOMAIN es \cup DOMAIN db)
      /\ DOMAIN es \cap DOMAIN X = {}
      /\ \A i \in DOMAIN es : es[i].state = "Added"
  BY <1>1 DEF Refers
<1>3. /\ Sound(Track(X, es))
      /\ DOMAIN Track(X, es) = DOMAIN X \cup DOMAIN es
      /\ \A i \in DOMAIN X : Track(X, es)[i] = X[i]
      /\ \A i \in DOMAIN es : Track(X, es)[i] = es[i]
  BY <1>1, <1>2, TrackIsSound, Zenon
<1> QED
  BY <1>1, <1>3 DEF es

\* A tracked job that is finished.
LEMMA FinishIsSound ==
    ASSUME TableType, NEW X, Sound(X), NEW j \in DOMAIN X \cap Jobs,
           NEW row, row = [X[j].row EXCEPT !.finished = TRUE],
           NEW state, state = IF X[j].state = "Added" THEN "Added" ELSE "Modified"
    PROVE  Sound([X EXCEPT ![j] = [row |-> row, state |-> state]])
<1> DEFINE e == [row |-> row, state |-> state]
           Y == [X EXCEPT ![j] = e]
<1>1. e.row = row /\ e.state = state
  OBVIOUS
<1>2. X[j].row \in Trading /\ row \in Trading
  <2>1. X[j].row \in Trading
    BY RowTypes DEF Sound, EntityType
  <2> QED
    BY <2>1 DEF Trading
<1>3. row.client = X[j].row.client /\ row.stock = X[j].row.stock
  BY <1>2 DEF Trading
<1>4. e \in Entities
  BY <1>2 DEF Entities, Rows
<1>5. /\ DOMAIN Y = DOMAIN X
      /\ Y[j] = e
      /\ \A k \in DOMAIN X : k # j => Y[k] = X[k]
  OBVIOUS
<1> HIDE DEF e, Y
<1>6. EntityType(Y)
  BY <1>1, <1>2, <1>4, <1>5, RowTypes DEF EntityType, Sound
<1>7. Agrees(Y)
  <2>1. CASE X[j].state = "Added"
    BY <1>1, <1>5, <2>1 DEF Agrees, Sound
  <2>2. CASE X[j].state # "Added"
    <3>1. j \in DOMAIN db /\ (X[j].row = db[j] \/ FinishedAtMost(db[j], X[j].row))
      BY <2>2 DEF Agrees, Sound, EntityType, Entities
    <3>2. db[j] \in Trading
      BY <3>1, RowTypes DEF TableType
    <3>3. FinishedAtMost(db[j], row)
      <4> DEFINE old == db[j]
               was == X[j].row
    <4>1. old \in Trading /\ was \in Trading /\ row = [was EXCEPT !.finished = TRUE]
      BY <1>2, <3>2
    <4>2. was = old \/ was = [old EXCEPT !.finished = TRUE]
      BY <3>1 DEF FinishedAtMost
    <4> HIDE DEF old, was
    <4>3. row = [old EXCEPT !.finished = TRUE]
      BY <4>1, <4>2 DEF Trading
    <4> QED
      BY <4>1, <4>3 DEF FinishedAtMost, old
    <3>4. e.state = "Modified"
      BY <1>1, <2>2
    <3> QED
      BY <1>1, <1>5, <3>1, <3>3, <3>4 DEF Agrees, Sound
  <2> QED
    BY <2>1, <2>2
<1>8. Refers(Y, DOMAIN Y \cup DOMAIN db)
  <2>1. \A k \in DOMAIN X : /\ Y[k].row.client = X[k].row.client
                            /\ Y[k].row.stock = X[k].row.stock
    BY <1>1, <1>3, <1>5
  <2>2. Refers(X, DOMAIN X \cup DOMAIN db)
    BY DEF Sound
  <2> QED
    BY <1>5, <2>1, <2>2 DEF Refers
<1> QED
  BY <1>6, <1>7, <1>8 DEF Sound, Y, e

-----------------------------------------------------------------------------
(* The handlers.                                                           *)

LEMMA HandledMessage ==
    ASSUME QueueType, NEW h \in Handlers
    PROVE  /\ At(h, "ClientRegistered") => handling[h].clientId \in Clients
           /\ At(h, "StockRegistered")  => /\ handling[h].ticker \in Stocks
                                           /\ handling[h].ownerId \in Clients
           /\ At(h, "TradingPlanned")   => /\ handling[h].jobId \in Jobs
                                           /\ handling[h].clientId \in Clients
                                           /\ handling[h].ticker \in Stocks
           /\ At(h, "TradingFinished")  => handling[h].jobId \in Jobs
<1>1. pc[h] = "handle" => handling[h] \in Message
  BY AnnouncementsAssumption DEF QueueType
<1> QED
  BY <1>1 DEF At, Message, ClientRegistered, StockRegistered, TradingPlanned,
              TradingFinished

LEMMA BecomesSound ==
    ASSUME NEW X, Sound(X), context' = X, db' = db
    PROVE  Sound(context)'
BY DEF Sound, EntityType, Agrees, Refers, FinishedAtMost

LEMMA AddStep ==
    ASSUME Sound(context), NEW h, NEW k \in Keys, NEW row \in RowOf(k), k \notin Jobs,
           Add(h, k, row)
    PROVE  Sound(context)'
<1>1. db' = db
  BY DEF Add
<1>2. CASE context' = context
  BY <1>1, <1>2, BecomesSound
<1>3. CASE k \notin DOMAIN context /\ context' = Track(context, New(k, row))
  <2>1. Sound(Track(context, New(k, row)))
    BY <1>3, AddIsSound
  <2> QED
    BY <1>1, <1>3, <2>1, BecomesSound
<1> QED
  BY <1>2, <1>3 DEF Add

Inserts(es) == EntityType(es) /\ \A k \in DOMAIN es : es[k].state = "Added"

LEMMA NoInserts == Inserts(<< >>) /\ DOMAIN << >> = {}
BY DEF Inserts, EntityType

LEMMA TrackInserts ==
    ASSUME NEW a, Inserts(a), NEW b, Inserts(b)
    PROVE  /\ Inserts(Track(a, b))
           /\ DOMAIN Track(a, b) = DOMAIN a \cup DOMAIN b
           /\ \A k \in DOMAIN a \ DOMAIN b : Track(a, b)[k] = a[k]
           /\ \A k \in DOMAIN b : Track(a, b)[k] = b[k]
<1> DEFINE T == Track(a, b)
<1>1. /\ DOMAIN T = DOMAIN a \cup DOMAIN b
      /\ \A k \in DOMAIN a \ DOMAIN b : T[k] = a[k]
      /\ \A k \in DOMAIN b : T[k] = b[k]
  BY DEF Track
<1> HIDE DEF T
<1>2. Inserts(T)
  BY <1>1 DEF Inserts, EntityType
<1> QED
  BY <1>1, <1>2 DEF T

LEMMA NewInserts ==
    ASSUME NEW k \in Keys, NEW row \in RowOf(k)
    PROVE  /\ Inserts(New(k, row))
           /\ DOMAIN New(k, row) = {k}
           /\ New(k, row)[k].row = row
<1>1. /\ EntityType(New(k, row))
      /\ DOMAIN New(k, row) = {k}
      /\ New(k, row)[k].row = row
      /\ New(k, row)[k].state = "Added"
  <2>1. k \in Keys /\ row \in RowOf(k)
    OBVIOUS
  <2> QED
    BY <2>1, NewEntity, Zenon
<1> QED
  BY <1>1 DEF Inserts

\* A job and what is attached next to it.
LEMMA JobIsSound ==
    ASSUME NEW X, Sound(X), NEW a, Inserts(a), DOMAIN a \cap DOMAIN X = {},
           DOMAIN a \cap Jobs = {}, NEW j \in Jobs \ DOMAIN X, NEW row \in Trading,
           {row.client, row.stock} \subseteq DOMAIN X \cup DOMAIN a \cup DOMAIN db \cup {Nothing}
    PROVE  /\ Sound(Track(X, Track(a, New(j, row))))
           /\ DOMAIN Track(X, Track(a, New(j, row))) = DOMAIN X \cup DOMAIN a \cup {j}
           /\ \A k \in DOMAIN X : Track(X, Track(a, New(j, row)))[k] = X[k]
<1>1. j \in Keys /\ row \in RowOf(j)
  BY RowTypes DEF Keys
<1> DEFINE n == New(j, row)
<1>2. Inserts(n) /\ DOMAIN n = {j} /\ n[j].row = row
  BY <1>1, NewInserts, Zenon
<1> HIDE DEF n
<1> DEFINE es == Track(a, n)
<1>3. /\ Inserts(es)
      /\ DOMAIN es = DOMAIN a \cup DOMAIN n
      /\ es[j] = n[j]
  <2>1. Inserts(a) /\ Inserts(n) /\ j \in DOMAIN n
    BY <1>2
  <2> QED
    BY <2>1, TrackInserts
<1> HIDE DEF es
<1>4. Refers(es, DOMAIN X \cup DOMAIN es \cup DOMAIN db)
  <2>1. \A k \in DOMAIN es \cap Jobs : k = j /\ es[k].row = row
    BY <1>2, <1>3
  <2> QED
    BY <1>2, <1>3, <2>1 DEF Refers
<1>5. /\ DOMAIN es \cap DOMAIN X = {}
      /\ EntityType(es)
      /\ \A k \in DOMAIN es : es[k].state = "Added"
  BY <1>2, <1>3 DEF Inserts
<1>6. /\ Sound(Track(X, es))
      /\ DOMAIN Track(X, es) = DOMAIN X \cup DOMAIN es
      /\ \A k \in DOMAIN X : Track(X, es)[k] = X[k]
  BY <1>4, <1>5, TrackIsSound, Zenon
<1> QED
  BY <1>2, <1>3, <1>6 DEF es, n

LEMMA AttachedInserts ==
    ASSUME NEW m, m.clientId \in Clients, m.ticker \in Stocks
    PROVE  /\ Inserts(Attached(m))
           /\ DOMAIN Attached(m) = {m.clientId, m.ticker} \ DOMAIN db
<1> DEFINE c == m.clientId
           s == m.ticker
           ca == IF c \in DOMAIN db THEN << >> ELSE New(c, [table |-> "Client"])
           sa == IF s \in DOMAIN db THEN << >>
                 ELSE New(s, [table |-> "Stock", owner |-> c])
<1>1. /\ c \in Keys /\ [table |-> "Client"] \in RowOf(c)
      /\ s \in Keys /\ [table |-> "Stock", owner |-> c] \in RowOf(s)
  BY RowTypes DEF Keys, Client, Stock
<1>2. Inserts(ca) /\ DOMAIN ca = {c} \ DOMAIN db
  <2>1. Inserts(New(c, [table |-> "Client"])) /\ DOMAIN New(c, [table |-> "Client"]) = {c}
    BY <1>1, NewInserts, Zenon
  <2> QED
    BY <2>1, NoInserts
<1>3. Inserts(sa) /\ DOMAIN sa = {s} \ DOMAIN db
  <2> DEFINE row == [table |-> "Stock", owner |-> c]
  <2>1. Inserts(New(s, row)) /\ DOMAIN New(s, row) = {s}
    BY <1>1, NewInserts, Zenon
  <2> HIDE DEF row
  <2>2. CASE s \in DOMAIN db
    BY <2>2, NoInserts
  <2>3. CASE s \notin DOMAIN db
    BY <2>1, <2>3 DEF row
  <2> QED
    BY <2>2, <2>3
<1> HIDE DEF ca, sa
<1>4. Inserts(Track(ca, sa)) /\ DOMAIN Track(ca, sa) = DOMAIN ca \cup DOMAIN sa
  BY <1>2, <1>3, TrackInserts, Zenon
<1> QED
  BY <1>2, <1>3, <1>4 DEF Attached, ca, sa

\* What a trading handler finds.
LEMMA QueryStep ==
    ASSUME ReadInv, NEW m, m.jobId \in Jobs, m.clientId \in Clients, m.ticker \in Stocks
    PROVE  /\ Sound(Queried({m.clientId, m.ticker}))
           /\ DOMAIN Queried({m.clientId, m.ticker})
                = DOMAIN context \cup ({m.clientId, m.ticker} \cap DOMAIN db)
           /\ \A k \in DOMAIN context :
                 Queried({m.clientId, m.ticker})[k] = context[k]
<1>1. {m.clientId, m.ticker} \in SUBSET Keys
  BY DEF Keys
<1> QED
  BY <1>1, QueriedIsSound DEF ReadInv

LEMMA TradingStep ==
    ASSUME ReadInv, NEW h \in Handlers, RegisterTrading(h)
    PROVE  Sound(context)'
<1> DEFINE m == handling[h]
           X == Queried({m.clientId, m.ticker})
           a == Attached(m)
           row == [table |-> "Trading", client |-> m.clientId,
                   stock |-> m.ticker, finished |-> FALSE]
<1>1. m.jobId \in Jobs /\ m.clientId \in Clients /\ m.ticker \in Stocks
  BY HandledMessage DEF RegisterTrading, ReadInv
<1>2. /\ Sound(X)
      /\ DOMAIN X = DOMAIN context \cup ({m.clientId, m.ticker} \cap DOMAIN db)
  BY <1>1, QueryStep
<1>3. Inserts(a) /\ DOMAIN a = {m.clientId, m.ticker} \ DOMAIN db
  BY <1>1, AttachedInserts
<1>4. row \in Trading /\ row.client = m.clientId /\ row.stock = m.ticker
  BY <1>1 DEF Trading
<1>5. /\ db' = db
      /\ DOMAIN a \cap DOMAIN X = {}
      /\ \/ context' = X
         \/ m.jobId \notin DOMAIN X /\ context' = Track(X, Track(a, New(m.jobId, row)))
  BY DEF RegisterTrading, Job
<1> HIDE DEF X, a, row
<1>6. CASE context' = X
  BY <1>2, <1>5, <1>6, BecomesSound
<1>7. CASE /\ m.jobId \notin DOMAIN X
           /\ context' = Track(X, Track(a, New(m.jobId, row)))
  <2>1. DOMAIN a \cap Jobs = {}
    BY <1>1, <1>3, KeysAssumption
  <2>2. {row.client, row.stock} \subseteq DOMAIN X \cup DOMAIN a \cup DOMAIN db \cup {Nothing}
    BY <1>3, <1>4
  <2>3. Sound(Track(X, Track(a, New(m.jobId, row))))
    <3> HIDE DEF m
    <3> QED
      BY <1>1, <1>2, <1>3, <1>4, <1>5, <1>7, <2>1, <2>2, JobIsSound
  <2> QED
    BY <1>5, <1>7, <2>3, BecomesSound
<1> QED
  BY <1>5, <1>6, <1>7

LEMMA TradingHalfStep ==
    ASSUME ReadInv, NEW h \in Handlers, RegisterTradingHalf(h)
    PROVE  Sound(context)'
<1> DEFINE m == handling[h]
           X == Queried({m.clientId, m.ticker})
           a == IF m.clientId \in DOMAIN db \cup DOMAIN X THEN << >>
                ELSE New(m.clientId, [table |-> "Client"])
           row == [table |-> "Trading", finished |-> FALSE,
                   client |-> IF m.clientId \in DOMAIN db \cup DOMAIN a
                              THEN m.clientId ELSE Nothing,
                   stock |-> IF m.ticker \in DOMAIN db THEN m.ticker ELSE Nothing]
<1>1. m.jobId \in Jobs /\ m.clientId \in Clients /\ m.ticker \in Stocks
  BY HandledMessage DEF RegisterTradingHalf, ReadInv
<1>2. Sound(X)
  BY <1>1, QueryStep
<1>3. Inserts(a) /\ DOMAIN a \subseteq {m.clientId} \ DOMAIN X
  <2>1. m.clientId \in Keys /\ [table |-> "Client"] \in RowOf(m.clientId)
    BY <1>1, RowTypes DEF Keys, Client
  <2>2. /\ Inserts(New(m.clientId, [table |-> "Client"]))
        /\ DOMAIN New(m.clientId, [table |-> "Client"]) = {m.clientId}
    BY <2>1, NewInserts, Zenon
  <2> QED
    BY <2>2, NoInserts
<1>4. /\ row.client \in {m.clientId, Nothing}
      /\ row.stock \in {m.ticker, Nothing}
      /\ row \in Trading
      /\ {row.client, row.stock} \subseteq DOMAIN a \cup DOMAIN db \cup {Nothing}
  <2> HIDE DEF a, m
  <2> QED
    BY <1>1 DEF Trading
<1>5. /\ db' = db
      /\ \/ context' = X
         \/ m.jobId \notin DOMAIN X /\ context' = Track(X, Track(a, New(m.jobId, row)))
  BY DEF RegisterTradingHalf
<1> HIDE DEF X, a, row
<1>6. CASE context' = X
  BY <1>2, <1>5, <1>6, BecomesSound
<1>7. CASE /\ m.jobId \notin DOMAIN X
           /\ context' = Track(X, Track(a, New(m.jobId, row)))
  <2>1. DOMAIN a \cap Jobs = {} /\ DOMAIN a \cap DOMAIN X = {}
    BY <1>1, <1>3, KeysAssumption
  <2>2. {row.client, row.stock} \subseteq DOMAIN X \cup DOMAIN a \cup DOMAIN db \cup {Nothing}
    BY <1>4
  <2>3. Sound(Track(X, Track(a, New(m.jobId, row))))
    <3> HIDE DEF m
    <3> QED
      BY <1>1, <1>2, <1>3, <1>4, <1>7, <2>1, <2>2, JobIsSound
  <2> QED
    BY <1>5, <1>7, <2>3, BecomesSound
<1> QED
  BY <1>5, <1>6, <1>7

LEMMA FinishStep ==
    ASSUME ReadInv, NEW h \in Handlers, FinishTrading(h)
    PROVE  Sound(context)'
<1> DEFINE j == handling[h].jobId
           X == Queried({j})
           row == [X[j].row EXCEPT !.finished = TRUE]
           state == IF X[j].state = "Added" THEN "Added" ELSE "Modified"
<1>1. j \in Jobs
  BY HandledMessage DEF FinishTrading, ReadInv
<1>2. Sound(X) /\ DOMAIN X = DOMAIN context \cup ({j} \cap DOMAIN db)
  <2>1. {j} \in SUBSET Keys
    BY <1>1 DEF Keys
  <2> QED
    BY <2>1, QueriedIsSound DEF ReadInv
<1>3. /\ db' = db
      /\ \/ context' = context
         \/ /\ j \in DOMAIN db
            /\ context' = [X EXCEPT ![j] = [row |-> row, state |-> state]]
  BY DEF FinishTrading
<1>4. CASE context' = context
  BY <1>3, <1>4, BecomesSound DEF ReadInv
<1>5. CASE /\ j \in DOMAIN db
           /\ context' = [X EXCEPT ![j] = [row |-> row, state |-> state]]
  <2>1. j \in DOMAIN X \cap Jobs
    BY <1>1, <1>2, <1>5
  <2>2. Sound([X EXCEPT ![j] = [row |-> row, state |-> state]])
    <3> HIDE DEF X, j
    <3> QED
      BY <1>2, <2>1, FinishIsSound DEF ReadInv
  <2> QED
    BY <1>3, <1>5, <2>2, BecomesSound
<1> QED
  BY <1>3, <1>4, <1>5

-----------------------------------------------------------------------------
(* SaveChanges.                                                            *)

\* What the transaction does to the tables, whether its answer arrives or not.
LEMMA WrittenRows ==
    ASSUME ReadInv, db' = Written
    PROVE  /\ DOMAIN db' = DOMAIN db \cup DOMAIN context
           /\ \A k \in Pending : db'[k] = context[k].row
           /\ \A k \in DOMAIN db \ Pending : db'[k] = db[k]
           /\ \A k \in DOMAIN context : db'[k] = context[k].row
           /\ TableType'
           /\ ReferencesExist'
<1>1. /\ DOMAIN db' = DOMAIN db \cup Pending
      /\ \A k \in Pending : db'[k] = context[k].row
      /\ \A k \in DOMAIN db \ Pending : db'[k] = db[k]
  BY DEF Written
<1>2. /\ Pending \subseteq DOMAIN context
      /\ \A k \in DOMAIN context \ Pending : context[k].state = "Unchanged"
  BY DEF Pending
<1>3. \A k \in DOMAIN context \ Pending : k \in DOMAIN db /\ db[k] = context[k].row
  BY <1>2 DEF ReadInv, Sound, Agrees
<1>4. /\ DOMAIN db' = DOMAIN db \cup DOMAIN context
      /\ \A k \in DOMAIN context : db'[k] = context[k].row
  BY <1>1, <1>2, <1>3
<1>5. TableType'
  BY <1>1, <1>2, <1>4 DEF TableType, ReadInv, Sound, EntityType, RowOf
<1>6. ReferencesExist'
  <2> SUFFICES ASSUME NEW j \in DOMAIN db' \cap Jobs
               PROVE  {db'[j].client, db'[j].stock} \subseteq DOMAIN db' \cup {Nothing}
    BY DEF ReferencesExist
  <2>1. CASE j \in DOMAIN context
    BY <1>4, <2>1 DEF ReadInv, Sound, Refers
  <2>2. CASE j \notin DOMAIN context
    BY <1>1, <1>2, <2>2 DEF ReadInv, ReferencesExist
  <2> QED
    BY <2>1, <2>2
<1> QED
  BY <1>1, <1>4, <1>5, <1>6

LEMMA SaveStep ==
    ASSUME ReadInv, db' = Written, context' = Accepted
    PROVE  Sound(context)'
<1>1. /\ DOMAIN context' = DOMAIN context
      /\ \A k \in DOMAIN context : context'[k] = [context[k] EXCEPT !.state = "Unchanged"]
  BY DEF Accepted
<1>2. \A k \in DOMAIN context : /\ context'[k] \in Entities
                                /\ context'[k].row = context[k].row
                                /\ context'[k].state = "Unchanged"
  <2> TAKE k \in DOMAIN context
  <2> DEFINE e == context[k]
  <2>1. e \in Entities
    BY DEF ReadInv, Sound, EntityType
  <2> HIDE DEF e
  <2>2. LET n == [e EXCEPT !.state = "Unchanged"]
        IN n \in Entities /\ n.row = e.row /\ n.state = "Unchanged"
    BY <2>1 DEF Entities
  <2> QED
    BY <1>1, <2>2 DEF e
<1>3. EntityType(context')
  BY <1>1, <1>2 DEF ReadInv, Sound, EntityType
<1>4. Agrees(context)'
  BY <1>1, <1>2, WrittenRows DEF Agrees
<1>5. Refers(context', DOMAIN context' \cup DOMAIN db')
  BY <1>1, <1>2, WrittenRows DEF ReadInv, Sound, Refers
<1> QED
  BY <1>3, <1>4, <1>5 DEF Sound, EntityType, Refers

LEMMA UnansweredStep ==
    ASSUME ReadInv, db' = Written, context' = context
    PROVE  Sound(context)'
<1>1. Agrees(context)'
  <2> SUFFICES ASSUME NEW k \in DOMAIN context
               PROVE  k \in DOMAIN db' /\ db'[k] = context[k].row
    BY DEF Agrees, FinishedAtMost
  <2> QED
    BY WrittenRows
<1>2. Refers(context, DOMAIN context \cup DOMAIN db')
  BY WrittenRows DEF ReadInv, Sound, Refers
<1> QED
  BY <1>1, <1>2 DEF ReadInv, Sound, EntityType, Refers, RowOf

-----------------------------------------------------------------------------
(* The invariant holds.                                                    *)

LEMMA QueueStep ==
    ASSUME QueueType, [Next]_vars
    PROVE  QueueType'
<1> USE DEF QueueType, HandlesHead
<1>0. \A m \in Announcements : m # Nothing
  BY NothingAssumption, AnnouncementsAssumption
<1>1. ASSUME NEW h \in Handlers, HandleMessage(h)
      PROVE  QueueType'
  <2>1. queue # << >> => Head(queue) \in Announcements
    BY HeadTailProperties
  <2> QED
    BY <1>0, <1>1, <2>1 DEF HandleMessage, Receive, Goto, Locations
<1>2. ASSUME NEW h \in Handlers, NEW location \in Locations \ {"idle"},
             pc[h] # "idle", Goto(h, location), UNCHANGED <<queueVars, announced>>,
             failures' \in Nat
      PROVE  QueueType'
  BY <1>2 DEF Goto, queueVars
<1>3. ASSUME NEW h \in Handlers, Return(h)
      PROVE  QueueType'
  <2>1. handling[h] # Nothing => queue' \in Seq(Announcements)
    BY <1>3, <1>0 DEF Return, Acknowledge
  <2> QED
    BY <1>3, <1>0, <2>1 DEF Return, Acknowledge, Goto, Locations
<1>4. ASSUME NEW m \in Announcements, Announce(m)
      PROVE  QueueType'
  BY <1>4 DEF Announce, Enqueue
<1>5. CASE LoseConnection
  BY <1>5 DEF LoseConnection, Reconnect
<1>6. CASE Crash
  BY <1>6 DEF Crash, Restart, Locations
<1>7. CASE UNCHANGED vars
  BY <1>7 DEF vars, queueVars
<1>8. ASSUME NEW h \in Handlers, Step(h) \/ Throw(h) \/ SaveUnanswered(h)
      PROVE  QueueType'
  <2> USE DEF Locations, At
  <2>1. CASE HandleMessage(h)
    BY <2>1, <1>1
  <2>2. CASE RegisterClient(h) \/ RegisterStock(h)
    BY <2>2, <1>2 DEF RegisterClient, RegisterStock, Add
  <2>3. CASE RegisterTrading(h) \/ RegisterTradingHalf(h)
    BY <2>3, <1>2 DEF RegisterTrading, RegisterTradingHalf
  <2>4. CASE FinishTrading(h)
    BY <2>4, <1>2 DEF FinishTrading
  <2>5. CASE SaveChanges(h) \/ RefuseChanges(h)
    BY <2>5, <1>2 DEF SaveChanges, RefuseChanges
  <2>6. CASE Return(h)
    BY <2>6, <1>3
  <2>7. CASE Throw(h) \/ SaveUnanswered(h)
    <3>1. failures' \in Nat
      BY <2>7 DEF Throw, SaveUnanswered
    <3> QED
      BY <2>7, <3>1, <1>2 DEF Throw, SaveUnanswered
  <2> QED
    BY <1>8, <2>1, <2>2, <2>3, <2>4, <2>5, <2>6, <2>7 DEF Step
<1> QED
  BY <1>4, <1>5, <1>6, <1>7, <1>8 DEF Next, Environment

LEMMA Inductive == ReadInv /\ [Next]_vars => ReadInv'
<1> SUFFICES ASSUME ReadInv, [Next]_vars
             PROVE  ReadInv'
  OBVIOUS
<1>1. QueueType'
  BY QueueStep DEF ReadInv
<1>2. ASSUME db' = db, Sound(context)'
      PROVE  ReadInv'
  BY <1>1, <1>2 DEF ReadInv, TableType, RowOf, ReferencesExist
<1>3. CASE UNCHANGED <<db, context>>
  BY <1>2, <1>3 DEF ReadInv, Sound, EntityType, Agrees, Refers, RowOf, FinishedAtMost
<1>4. ASSUME NEW h \in Handlers, Step(h) \/ SaveUnanswered(h)
      PROVE  ReadInv'
  <2>1. CASE RegisterClient(h)
    <3>1. /\ handling[h].clientId \in Keys \ Jobs
          /\ [table |-> "Client"] \in RowOf(handling[h].clientId)
      BY <2>1, HandledMessage, RowTypes, KeysAssumption
         DEF RegisterClient, ReadInv, Keys, Client
    <3>2. Sound(context)'
      BY <2>1, <3>1, AddStep DEF RegisterClient, ReadInv
    <3> QED
      BY <2>1, <3>2, <1>2 DEF RegisterClient, Add
  <2>2. CASE RegisterStock(h)
    <3>1. /\ handling[h].ticker \in Keys \ Jobs
          /\ [table |-> "Stock", owner |-> handling[h].ownerId]
                \in RowOf(handling[h].ticker)
      BY <2>2, HandledMessage, RowTypes, KeysAssumption
         DEF RegisterStock, ReadInv, Keys, Stock
    <3>2. Sound(context)'
      BY <2>2, <3>1, AddStep DEF RegisterStock, ReadInv
    <3> QED
      BY <2>2, <3>2, <1>2 DEF RegisterStock, Add
  <2>3. CASE RegisterTrading(h)
    BY <2>3, TradingStep, <1>2 DEF RegisterTrading
  <2>4. CASE RegisterTradingHalf(h)
    BY <2>4, TradingHalfStep, <1>2 DEF RegisterTradingHalf
  <2>5. CASE FinishTrading(h)
    BY <2>5, FinishStep, <1>2 DEF FinishTrading
  <2>6. CASE SaveChanges(h)
    BY <1>1, <2>6, SaveStep, WrittenRows DEF SaveChanges, ReadInv
  <2>7. CASE SaveUnanswered(h)
    BY <1>1, <2>7, UnansweredStep, WrittenRows DEF SaveUnanswered, ReadInv
  <2>8. CASE HandleMessage(h) \/ RefuseChanges(h) \/ Return(h)
    BY <1>3, <2>8 DEF HandleMessage, RefuseChanges, Return
  <2> QED
    BY <1>4, <2>1, <2>2, <2>3, <2>4, <2>5, <2>6, <2>7, <2>8 DEF Step
<1>5. CASE Crash
  <2>1. Sound(context)'
    BY <1>5 DEF Crash, Sound, EntityType, Agrees, Refers
  <2> QED
    BY <1>2, <1>5, <2>1 DEF Crash
<1>6. ASSUME NEW h \in Handlers, Throw(h)
      PROVE  ReadInv'
  <2> DEFINE X == Queried({handling[h].clientId})
  <2>1. db' = db /\ (context' = context \/ (At(h, "TradingPlanned") /\ context' = X))
    BY <1>6 DEF Throw
  <2>2. At(h, "TradingPlanned") => Sound(X)
    <3>1. At(h, "TradingPlanned") => {handling[h].clientId} \in SUBSET Keys
      BY HandledMessage DEF ReadInv, Keys
    <3> QED
      BY <3>1, QueriedIsSound DEF ReadInv
  <2> HIDE DEF X
  <2>3. CASE context' = context
    BY <1>3, <2>1, <2>3
  <2>4. CASE Sound(X) /\ context' = X
    BY <1>2, <2>1, <2>4, BecomesSound
  <2> QED
    BY <2>1, <2>2, <2>3, <2>4
<1> QED
  BY <1>3, <1>4, <1>5, <1>6 DEF Next, Environment, Announce, LoseConnection, vars

LEMMA InvariantHolds == Spec => []ReadInv
<1>1. Init => ReadInv
  BY DEF Init, QueueInit, ReadInv, QueueType, HandlesHead, Locations, TableType,
         ReferencesExist, Sound, EntityType, Agrees, Refers
<1> QED
  BY <1>1, Inductive, PTL DEF Spec

\* The tables, the context and the queue hold what they can hold, and an
\* activation is idle exactly when it handles no message.
THEOREM ReadModelTypeCorrect == Spec => []TypeOK
<1>1. ReadInv => TypeOK
  BY DEF ReadInv, QueueType, TableType, Sound, EntityType, TypeOK
<1> QED
  BY <1>1, InvariantHolds, PTL

\* What the context believes to be stored is stored, whatever was handled and
\* whatever failed before.
THEOREM ContextStaysFresh == Spec => []ContextAgrees
<1>1. ReadInv => ContextAgrees
  BY DEF ReadInv, Sound, Agrees, ContextAgrees
<1> QED
  BY <1>1, InvariantHolds, PTL

\* No job of the read model names a client or a stock that it has not.
THEOREM ForeignKeysHold == Spec => []ReferencesExist
<1>1. ReadInv => ReferencesExist
  BY DEF ReadInv
<1> QED
  BY <1>1, InvariantHolds, PTL

-----------------------------------------------------------------------------
(* What a step does to the rows that are there.                            *)

KeepsRows == \A k \in DOMAIN db : k \in DOMAIN db' /\ FinishedAtMost(db[k], db'[k])

LEMMA SaveKeepsRows ==
    ASSUME ReadInv, KeysAreFree, db' = Written
    PROVE  KeepsRows
<1> SUFFICES ASSUME NEW k \in DOMAIN db
             PROVE  k \in DOMAIN db' /\ FinishedAtMost(db[k], db'[k])
  BY DEF KeepsRows
<1>1. k \in DOMAIN db'
  BY WrittenRows
<1>2. CASE k \notin Pending
  BY <1>2, WrittenRows DEF FinishedAtMost
<1>3. CASE k \in Pending
  <2>1. /\ k \in DOMAIN context
        /\ db'[k] = context[k].row
        /\ context[k].state = "Modified"
    BY <1>3, WrittenRows DEF Pending, KeysAreFree, ReadInv, Sound, EntityType, Entities
  <2> QED
    BY <1>1, <2>1 DEF ReadInv, Sound, Agrees
<1> QED
  BY <1>1, <1>2, <1>3

LEMMA UnchangedKeepsRows ==
    ASSUME db' = db
    PROVE  KeepsRows
BY DEF KeepsRows, FinishedAtMost

LEMMA TableSteps ==
    ASSUME [Next]_vars
    PROVE  db' = db \/ (KeysAreFree /\ db' = Written)
<1>1. ASSUME NEW h \in Handlers, Step(h)
      PROVE  db' = db \/ (KeysAreFree /\ db' = Written)
  BY <1>1 DEF Step, HandleMessage, RegisterClient, RegisterStock, Add, RegisterTrading,
              RegisterTradingHalf, FinishTrading, SaveChanges, RefuseChanges, Return
<1>2. CASE Environment \/ UNCHANGED vars
  BY <1>2 DEF Environment, Announce, Throw, SaveUnanswered, LoseConnection, Crash, vars
<1> QED
  BY <1>1, <1>2 DEF Next

\* No message takes a row away or changes it, except to finish a job: of two
\* registrations of one key the first stays, through every failure.
THEOREM RowsStay == Spec => RowsAreKept
<1>1. ReadInv /\ [Next]_vars => KeepsRows
  BY TableSteps, SaveKeepsRows, UnchangedKeepsRows
<1>2. ReadInv /\ [Next]_vars
         => [\A k \in DOMAIN db : k \in DOMAIN db' /\ FinishedAtMost(db[k], db'[k])]_vars
  BY <1>1 DEF KeepsRows
<1> QED
  BY <1>2, InvariantHolds, PTL DEF Spec, RowsAreKept

-----------------------------------------------------------------------------
(* As long as nothing fails.                                               *)

\* Message m has left its mark among the keys.
ShownIn(m, keys) ==
    /\ m.type = "ClientRegistered" => m.clientId \in keys
    /\ m.type = "StockRegistered"  => m.ticker \in keys
    /\ m.type = "TradingPlanned"   => m.jobId \in keys

\* The context holds the whole of the tables, and more only while it saves.
QuietInv ==
    failures = 0 =>
        /\ \A h \in Handlers : h # channel => pc[h] = "idle"
        /\ KeysAreFree
        /\ DOMAIN db \subseteq DOMAIN context
        /\ pc[channel] # "save" => DOMAIN context = DOMAIN db
        /\ pc[channel] = "save" => ShownIn(handling[channel], DOMAIN context)
        /\ pc[channel] = "return" => ShownIn(handling[channel], DOMAIN db)
        /\ \A m \in announced \ Waiting : ShownIn(m, DOMAIN db)

\* The handler goes on, over a context that has kept its entities.
LEMMA HandlerGoesOn ==
    ASSUME ReadInv, QuietInv, failures = 0, pc[channel] = "handle",
           UNCHANGED <<queueVars, db, announced, failures>>,
           DOMAIN context \subseteq DOMAIN context',
           \A k \in DOMAIN context : context'[k].state = "Added"
                                        => context[k].state = "Added",
           \/ Goto(channel, "save") /\ ShownIn(handling[channel], DOMAIN context')
           \/ /\ Goto(channel, "return") /\ ShownIn(handling[channel], DOMAIN db)
              /\ DOMAIN context' = DOMAIN context
    PROVE  QuietInv'
<1>1. /\ pc \in [Handlers -> Locations]
      /\ channel \in Handlers
      /\ channel' = channel /\ handling' = handling
      /\ Waiting' = Waiting
  BY DEF ReadInv, QueueType, queueVars, Waiting
<1>2. DOMAIN context = DOMAIN db /\ KeysAreFree
  BY DEF QuietInv
<1>3. KeysAreFree'
  BY <1>2 DEF KeysAreFree
<1> QED
  BY <1>1, <1>2, <1>3 DEF QuietInv, Goto

LEMMA AddQuietly ==
    ASSUME ReadInv, QuietInv, failures = 0, pc[channel] = "handle",
           NEW k \in Keys, NEW row \in RowOf(k), k \notin Jobs, Add(channel, k, row),
           \A keys : k \in keys => ShownIn(handling[channel], keys)
    PROVE  QuietInv'
<1>1. DOMAIN context = DOMAIN db
  BY DEF QuietInv
<1>2. CASE k \in DOMAIN context
  BY <1>1, <1>2, HandlerGoesOn DEF Add
<1>3. CASE k \notin DOMAIN context
  <2> DEFINE T == Track(context, New(k, row))
  <2>1. /\ DOMAIN T = DOMAIN context \cup {k}
        /\ \A i \in DOMAIN context : T[i] = context[i]
    BY <1>3, AddIsSound DEF ReadInv
  <2>2. /\ context' = T
        /\ Goto(channel, "save")
        /\ UNCHANGED <<queueVars, db, announced, failures>>
    BY <1>3 DEF Add
  <2> HIDE DEF T
  <2> QED
    BY <2>1, <2>2, HandlerGoesOn
<1> QED
  BY <1>2, <1>3

LEMMA TradeQuietly ==
    ASSUME ReadInv, QuietInv, failures = 0, pc[channel] = "handle", channel \in Handlers,
           RegisterTrading(channel)
    PROVE  QuietInv'
<1> DEFINE m == handling[channel]
           X == Queried({m.clientId, m.ticker})
           a == Attached(m)
           row == [table |-> "Trading", client |-> m.clientId,
                   stock |-> m.ticker, finished |-> FALSE]
           T == Track(X, Track(a, New(m.jobId, row)))
<1>0. DOMAIN context = DOMAIN db
  BY DEF QuietInv
<1>1. /\ m.jobId \in Jobs /\ m.clientId \in Clients /\ m.ticker \in Stocks
      /\ m.type = "TradingPlanned"
  BY HandledMessage DEF RegisterTrading, ReadInv, At
<1>2. /\ Sound(X)
      /\ DOMAIN X = DOMAIN context
      /\ \A k \in DOMAIN context : X[k] = context[k]
  BY <1>0, <1>1, QueryStep
<1>3. Inserts(a) /\ DOMAIN a = {m.clientId, m.ticker} \ DOMAIN db
  BY <1>1, AttachedInserts
<1>4. row \in Trading /\ row.client = m.clientId /\ row.stock = m.ticker
  BY <1>1 DEF Trading
<1>5. /\ UNCHANGED <<queueVars, db, announced, failures>>
      /\ DOMAIN a \cap DOMAIN X = {}
      /\ IF m.jobId \in DOMAIN X THEN Goto(channel, "return") /\ context' = X
                                 ELSE Goto(channel, "save") /\ context' = T
  BY DEF RegisterTrading, Job
<1>6. \A keys : m.jobId \in keys => ShownIn(m, keys)
  BY <1>1 DEF ShownIn
<1> HIDE DEF X, a, row
<1>7. CASE m.jobId \in DOMAIN X
  BY <1>0, <1>2, <1>5, <1>6, <1>7, HandlerGoesOn
<1>8. CASE m.jobId \notin DOMAIN X
  <2>1. DOMAIN a \cap Jobs = {}
    BY <1>1, <1>3, KeysAssumption
  <2>2. {row.client, row.stock} \subseteq DOMAIN X \cup DOMAIN a \cup DOMAIN db \cup {Nothing}
    BY <1>3, <1>4
  <2>3. /\ DOMAIN T = DOMAIN X \cup DOMAIN a \cup {m.jobId}
        /\ \A k \in DOMAIN X : T[k] = X[k]
    <3> HIDE DEF m
    <3> QED
      BY <1>1, <1>2, <1>3, <1>4, <1>5, <1>8, <2>1, <2>2, JobIsSound
  <2> HIDE DEF T
  <2> QED
    BY <1>2, <1>5, <1>6, <1>8, <2>3, HandlerGoesOn
<1> QED
  BY <1>7, <1>8

LEMMA FinishQuietly ==
    ASSUME ReadInv, QuietInv, failures = 0, pc[channel] = "handle", channel \in Handlers,
           FinishTrading(channel)
    PROVE  QuietInv'
<1> DEFINE j == handling[channel].jobId
           X == Queried({j})
           e == [row |-> [X[j].row EXCEPT !.finished = TRUE],
                 state |-> IF X[j].state = "Added" THEN "Added" ELSE "Modified"]
<1>0. DOMAIN context = DOMAIN db
  BY DEF QuietInv
<1>1. j \in Keys /\ \A keys : ShownIn(handling[channel], keys)
  BY HandledMessage DEF FinishTrading, ReadInv, At, ShownIn, Keys
<1>2. DOMAIN X = DOMAIN context /\ \A k \in DOMAIN context : X[k] = context[k]
  <2>1. {j} \in SUBSET Keys
    BY <1>1
  <2> QED
    BY <1>0, <2>1, QueriedIsSound DEF ReadInv
<1>3. /\ UNCHANGED <<queueVars, db, announced, failures>>
      /\ IF j \in DOMAIN db THEN Goto(channel, "save") /\ context' = [X EXCEPT ![j] = e]
                            ELSE Goto(channel, "return") /\ UNCHANGED context
  BY DEF FinishTrading
<1>4. e.state = "Added" => X[j].state = "Added"
  OBVIOUS
<1> HIDE DEF e, X, j
<1>5. CASE j \in DOMAIN db
  <2>1. /\ DOMAIN context' = DOMAIN context
        /\ \A k \in DOMAIN context : context'[k].state = "Added"
                                        => context[k].state = "Added"
    BY <1>0, <1>2, <1>3, <1>4, <1>5
  <2> QED
    BY <1>1, <1>3, <1>5, <2>1, HandlerGoesOn
<1>6. CASE j \notin DOMAIN db
  BY <1>0, <1>1, <1>3, <1>6, HandlerGoesOn
<1> QED
  BY <1>5, <1>6

LEMMA FailureCounts ==
    ASSUME ReadInv, [Next]_vars
    PROVE  \/ failures' # 0
           \/ /\ failures = 0
              /\ \/ \E h \in Handlers : Step(h)
                 \/ \E m \in Announcements : Announce(m)
                 \/ UNCHANGED vars
<1>1. failures \in Nat
  BY DEF ReadInv, QueueType
<1>2. ASSUME NEW h \in Handlers, Step(h)
      PROVE  failures' = failures
  BY <1>2 DEF Step, HandleMessage, RegisterClient, RegisterStock, Add, RegisterTrading,
              RegisterTradingHalf, FinishTrading, SaveChanges, RefuseChanges, Return
<1>3. ASSUME NEW h \in Handlers, Throw(h) \/ SaveUnanswered(h)
      PROVE  failures' = failures + 1
  BY <1>3 DEF Throw, SaveUnanswered
<1>4. LoseConnection \/ Crash => failures' = failures + 1
  BY DEF LoseConnection, Crash
<1>5. UNCHANGED vars \/ (\E m \in Announcements : Announce(m)) => failures' = failures
  BY DEF vars, Announce
<1> QED
  BY <1>1, <1>2, <1>3, <1>4, <1>5 DEF Next, Environment

LEMMA QuietStep == ReadInv /\ QuietInv /\ [Next]_vars => QuietInv'
<1> SUFFICES ASSUME ReadInv, QuietInv, [Next]_vars
             PROVE  QuietInv'
  OBVIOUS
<1>1. ASSUME failures = 0, NEW m \in Announcements, Announce(m)
      PROVE  QuietInv'
  <2>1. /\ \A i \in DOMAIN queue : i \in DOMAIN queue' /\ queue'[i] = queue[i]
        /\ Len(queue) + 1 \in DOMAIN queue' /\ queue'[Len(queue) + 1] = m
    BY <1>1 DEF Announce, Enqueue, ReadInv, QueueType
  <2>2. Waiting \cup {m} \subseteq Waiting'
    BY <2>1, Zenon DEF Waiting
  <2> QED
    BY <1>1, <2>2 DEF Announce, Enqueue, QuietInv, KeysAreFree
<1>2. CASE UNCHANGED vars
  BY <1>2 DEF QuietInv, vars, queueVars, KeysAreFree, Waiting
<1>3. ASSUME failures = 0, NEW h \in Handlers, Step(h)
      PROVE  QuietInv'
  <2>0. /\ pc \in [Handlers -> Locations]
        /\ channel \in Handlers
        /\ \A g \in Handlers : pc[g] = "idle" <=> handling[g] = Nothing
    BY DEF ReadInv, QueueType
  <2>1. h = channel
    <3>1. pc[h] # "idle" \/ channel = h
      BY <1>3 DEF Step, HandleMessage, Receive, RegisterClient, RegisterStock, At,
                  RegisterTrading, RegisterTradingHalf, FinishTrading, SaveChanges,
                  RefuseChanges, Return, Acknowledge
    <3> QED
      BY <1>3, <3>1 DEF QuietInv
  <2>2. CASE HandleMessage(h)
    <3>1. /\ pc[channel] = "idle"
          /\ pc'[channel] = "handle"
          /\ \A g \in Handlers : g # channel => pc'[g] = "idle"
          /\ Waiting' = Waiting
          /\ UNCHANGED <<channel, db, context, announced, failures>>
      BY <1>3, <2>0, <2>1, <2>2 DEF HandleMessage, Receive, Goto, QuietInv, Waiting
    <3> QED
      BY <1>3, <3>1 DEF QuietInv, KeysAreFree
  <2>3. CASE RegisterClient(h)
    <3> DEFINE k == handling[channel].clientId
               row == [table |-> "Client"]
    <3>1. /\ k \in Keys /\ k \notin Jobs /\ row \in RowOf(k)
          /\ \A keys : k \in keys => ShownIn(handling[channel], keys)
          /\ pc[channel] = "handle" /\ Add(channel, k, row)
      BY <2>0, <2>1, <2>3, HandledMessage, RowTypes, KeysAssumption
         DEF RegisterClient, ReadInv, Keys, Client, At, ShownIn
    <3> HIDE DEF k, row
    <3> QED
      BY <1>3, <3>1, AddQuietly
  <2>4. CASE RegisterStock(h)
    <3> DEFINE k == handling[channel].ticker
               row == [table |-> "Stock", owner |-> handling[channel].ownerId]
    <3>1. /\ k \in Keys /\ k \notin Jobs /\ row \in RowOf(k)
          /\ \A keys : k \in keys => ShownIn(handling[channel], keys)
          /\ pc[channel] = "handle" /\ Add(channel, k, row)
      BY <2>0, <2>1, <2>4, HandledMessage, RowTypes, KeysAssumption
         DEF RegisterStock, ReadInv, Keys, Stock, At, ShownIn
    <3> HIDE DEF k, row
    <3> QED
      BY <1>3, <3>1, AddQuietly
  <2>5. CASE RegisterTrading(h)
    BY <1>3, <2>0, <2>1, <2>5, TradeQuietly DEF RegisterTrading, At
  <2>6. CASE RegisterTradingHalf(h)
    <3> DEFINE m == handling[h]
    <3>1. /\ pc[channel] = "handle"
          /\ m.jobId \in Jobs /\ m.clientId \in Clients /\ m.ticker \in Stocks
          /\ DOMAIN Attached(m) \cap DOMAIN Queried({m.clientId, m.ticker}) # {}
      BY <2>1, <2>6, HandledMessage DEF RegisterTradingHalf, ReadInv, At
    <3>2. DOMAIN context = DOMAIN db
      BY <1>3, <3>1 DEF QuietInv
    <3> HIDE DEF m
    <3>3. /\ DOMAIN Attached(m) = {m.clientId, m.ticker} \ DOMAIN db
          /\ DOMAIN Queried({m.clientId, m.ticker})
                = DOMAIN context \cup ({m.clientId, m.ticker} \cap DOMAIN db)
      BY <3>1, AttachedInserts, QueryStep
    <3> QED
      BY <3>1, <3>2, <3>3
  <2>7. CASE FinishTrading(h)
    BY <1>3, <2>0, <2>1, <2>7, FinishQuietly DEF FinishTrading, At
  <2>8. CASE SaveChanges(h)
    <3>1. /\ pc[channel] = "save"
          /\ pc' = [pc EXCEPT ![channel] = "return"]
          /\ db' = Written /\ context' = Accepted
          /\ UNCHANGED <<queueVars, announced, failures>>
      BY <2>1, <2>8 DEF SaveChanges, Goto
    <3>2. /\ DOMAIN context' = DOMAIN context
          /\ \A k \in DOMAIN context : context'[k].state = "Unchanged"
      <4>1. \A k \in DOMAIN context : context[k] \in Entities
        BY DEF ReadInv, Sound, EntityType
      <4> QED
        BY <3>1, <4>1 DEF Accepted, Entities
    <3>3. DOMAIN db' = DOMAIN db \cup DOMAIN context
      BY <3>1, WrittenRows
    <3>4. DOMAIN db \subseteq DOMAIN context /\ ShownIn(handling[channel], DOMAIN context)
      BY <1>3, <3>1 DEF QuietInv
    <3>5. DOMAIN context' = DOMAIN db' /\ KeysAreFree'
      BY <3>2, <3>3, <3>4 DEF KeysAreFree
    <3>6. Waiting' = Waiting /\ channel' = channel /\ handling' = handling
      BY <3>1 DEF Waiting, queueVars
    <3>7. \A m : ShownIn(m, DOMAIN db) => ShownIn(m, DOMAIN db')
      BY <3>3 DEF ShownIn
    <3>8. ShownIn(handling[channel], DOMAIN db')
      BY <3>2, <3>4, <3>5
    <3> QED
      BY <1>3, <2>0, <3>1, <3>5, <3>6, <3>7, <3>8 DEF QuietInv
  <2>9. CASE RefuseChanges(h)
    BY <1>3, <2>9 DEF RefuseChanges, QuietInv
  <2>10. CASE Return(h)
    <3>1. /\ pc[channel] = "return"
          /\ pc' = [pc EXCEPT ![channel] = "idle"]
          /\ queue' = Tail(queue)
          /\ handling[channel] # Nothing
          /\ UNCHANGED <<channel, db, context, announced, failures>>
      BY <2>1, <2>10 DEF Return, Acknowledge, Goto
    <3>2. queue \in Seq(Announcements) /\ queue # << >> /\ Head(queue) = handling[channel]
      BY <3>1 DEF ReadInv, QueueType, HandlesHead
    <3>3. Waiting \subseteq Waiting' \cup {handling[channel]}
      <4>1. \A i \in DOMAIN queue : i = 1 \/ (i - 1 \in DOMAIN queue' /\ queue'[i - 1] = queue[i])
        BY <3>1, <3>2
      <4>2. queue[1] = handling[channel]
        BY <3>2
      <4> QED
        BY <4>1, <4>2 DEF Waiting
    <3>4. ShownIn(handling[channel], DOMAIN db) /\ DOMAIN context = DOMAIN db /\ KeysAreFree
      BY <1>3, <3>1 DEF QuietInv
    <3> QED
      BY <1>3, <2>0, <3>1, <3>3, <3>4 DEF QuietInv, KeysAreFree
  <2> QED
    BY <1>3, <2>2, <2>3, <2>4, <2>5, <2>6, <2>7, <2>8, <2>9, <2>10 DEF Step
<1>4. CASE failures' # 0
  BY <1>4 DEF QuietInv
<1> QED
  BY <1>1, <1>2, <1>3, <1>4, FailureCounts

\* As long as nothing fails the context is never poisoned, and whatever was
\* acknowledged is in the read model.
THEOREM ShownWhenQuiet == Spec => []ShownUnlessFailed
<1>1. Init => QuietInv
  BY DEF Init, QueueInit, QuietInv, KeysAreFree
<1>2. ReadInv /\ QuietInv => ShownUnlessFailed
  <2>1. \A m \in Message : ShownIn(m, DOMAIN db) => IsShown(m)
    BY DEF Message, ClientRegistered, StockRegistered, TradingPlanned,
           TradingFinished, ShownIn, IsShown
  <2>2. ReadInv => announced \subseteq Message
    BY AnnouncementsAssumption DEF ReadInv, QueueType
  <2> QED
    BY <2>1, <2>2 DEF QuietInv, ShownUnlessFailed, Poisoned
<1> QED
  BY <1>1, <1>2, QuietStep, InvariantHolds, PTL DEF Spec


-----------------------------------------------------------------------------
(* The promise of the messaging library.                                   *)

\* While a callback runs, the queue stands still and the message stays taken.
LEMMA CallbackStandsStill ==
    ASSUME NEW h \in Handlers, Step(h), ~HandleMessage(h), ~Return(h)
    PROVE  UNCHANGED <<queueVars, failures>>
BY DEF Step, RegisterClient, RegisterStock, Add, RegisterTrading, RegisterTradingHalf,
       FinishTrading, SaveChanges, RefuseChanges

LEMMA DeliveryStep ==
    ASSUME QueueType, [Next]_vars
    PROVE  [Delivery!Next]_(Delivery!vars)
<1> USE DEF Delivery!Next, Delivery!vars
<1>0. /\ channel \in Handlers
      /\ handling \in [Handlers -> Announcements \cup {Nothing}]
      /\ HandlesHead
  BY DEF QueueType
<1>1. CASE UNCHANGED <<queueVars, failures>>
  BY <1>1 DEF queueVars
<1>2. ASSUME NEW m \in Announcements, Announce(m)
      PROVE  Delivery!Arrive
  BY <1>2 DEF Announce, Enqueue, Delivery!Arrive
<1>3. ASSUME NEW h \in Handlers, HandleMessage(h)
      PROVE  Delivery!Take
  BY <1>0, <1>3 DEF HandleMessage, Receive, Delivery!Take
\* The activation that a lost connection left behind acknowledges nothing.
<1>4. ASSUME NEW h \in Handlers, Return(h)
      PROVE  Delivery!Settle \/ UNCHANGED Delivery!vars
  <2>1. CASE channel = h
    BY <1>0, <1>4, <2>1 DEF Return, Acknowledge, Delivery!Settle
  <2>2. CASE channel # h
    BY <1>0, <1>4, <2>2 DEF Return, Acknowledge
  <2> QED
    BY <2>1, <2>2
<1>5. ASSUME NEW h \in Handlers, Step(h)
      PROVE  [Delivery!Next]_(Delivery!vars)
  BY <1>1, <1>3, <1>4, <1>5, CallbackStandsStill
<1>6. CASE \E h \in Handlers : Throw(h) \/ SaveUnanswered(h)
  BY <1>6 DEF Throw, SaveUnanswered, queueVars, Delivery!Trouble
<1>7. CASE LoseConnection
  BY <1>0, <1>7 DEF LoseConnection, Reconnect, Delivery!Trouble
<1>8. CASE Crash
  BY <1>0, <1>8 DEF Crash, Restart, Delivery!Trouble
<1>9. CASE UNCHANGED vars
  BY <1>1, <1>9 DEF vars
<1> QED
  BY <1>2, <1>5, <1>6, <1>7, <1>8, <1>9 DEF Next, Environment

\* Whatever the event handler does with its messages, and whatever fails, each is
\* handled in its turn, and leaves the queue only when its callback has returned.
THEOREM EventHandlerDelivers == Spec => ImplementsDelivery
<1>1. Init => Delivery!Init
  BY DEF Init, QueueInit, Delivery!Init
<1>2. ReadInv /\ [Next]_vars => [Delivery!Next]_(Delivery!vars)
  BY DeliveryStep DEF ReadInv
<1> QED
  BY <1>1, <1>2, InvariantHolds, PTL DEF Spec, ImplementsDelivery, Delivery!Spec

=============================================================================
