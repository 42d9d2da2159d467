----------------------- MODULE CustomerRequestsProofs -----------------------
(***************************************************************************)
(* Theorems about CustomerRequests, for any requests, users of the         *)
(* connector, late reports and restarts: what remotehub records as         *)
(* approved was opened, the journal has each request once a run, and       *)
(* answers are kept, asked for once and final.                             *)
(***************************************************************************)
EXTENDS CustomerRequests, FiniteSetTheorems, TLAPS

\* A row that waits no longer, for good, or that was pushed off the list.
Closed(r) == (status[r] # "none" /\ ~Waiting(r)) \/ r \in pushed

\* The connector was told of r since it started.
Seen(r) == received[r] > 0

\* Who is about to insert a row has none, and the rows in order are there or
\* about to be.
RowsAreMade ==
  /\ \A r \in asking : status[r] = "none"
  /\ \A i \in DOMAIN order : status[order[i]] # "none" \/ order[i] \in asking

\* An approval is in access.json before it is anywhere else: in a handler's
\* hands, among the answers, in a report, in the table.
OpenedFirst ==
  /\ \A r \in Request : status[r] = "approved" => r \in opened
  /\ \A i \in DOMAIN answers : answers[i].approved => answers[i].id \in opened
  /\ \A m \in flight : \A i \in DOMAIN m.answers :
       m.answers[i].approved => m.answers[i].id \in opened
  /\ \A u \in User : ui[u].at = "opened" => ui[u].id \in opened

\* The connector waits for one report at a time.
OneLive ==
  /\ \A m \in flight : m.live => reporting
  /\ \A m, n \in flight : m.live /\ n.live => m = n

\* What the connector was told of is listed until it waits no longer.
ToldIsListed ==
  \A r \in Request :
    /\ r \notin pushed => received[r] <= 1
    /\ Seen(r) => r \in pending \/ Closed(r)
    /\ Seen(r) /\ r \notin listed => Closed(r)
    /\ r \in listed => Seen(r)

\* The list on its way to the connector leaves out only what waits no longer,
\* and brings nothing back.
ReplyFits ==
  \A m \in flight, r \in Request :
    m.live /\ m.at = "reply" /\ m.ok =>
      /\ r \in m.list => r \in pending \/ Closed(r)
      /\ Seen(r) /\ r \notin m.list => Closed(r)
      /\ Seen(r) /\ r \in m.list => r \in listed \cup pushed

\* Only what the connector was told of is answered; what was answered has its
\* answer still, or is off the list, or was pushed off it.
AnsweredWasTold ==
  /\ \A u \in User : ui[u].at # "idle" => Seen(ui[u].id)
  /\ \A i \in DOMAIN answers : answers[i].id \in given
  /\ \A r \in given : Seen(r) /\ (HasAnswer(r) \/ r \notin listed \/ r \in pushed)

\* The inductive invariant.
Inv ==
  /\ TypeOK
  /\ RowsAreMade
  /\ OpenedFirst
  /\ OneLive
  /\ ToldIsListed
  /\ ReplyFits
  /\ AnsweredWasTold

-----------------------------------------------------------------------------
\* Vec::retain: the answers left are some of those there were, and every one
\* to a listed request is left.
LEMMA RetainKeeps ==
  ASSUME NEW list, answers \in Seq(Answer), Retain(list)
  PROVE  /\ answers' \in Seq(Answer)
         /\ \A i \in DOMAIN answers' : \E j \in DOMAIN answers :
              answers'[i] = answers[j] /\ answers[j].id \in list
         /\ \A j \in DOMAIN answers : answers[j].id \in list =>
              \E i \in DOMAIN answers' : answers'[i] = answers[j]
<1> DEFINE stays == {i \in DOMAIN answers : answers[i].id \in list}
           n     == Cardinality(stays)
<1>1. IsFiniteSet(stays) /\ n \in Nat
  <2>1. IsFiniteSet(1 .. Len(answers))
    BY FS_Interval
  <2>2. stays \in SUBSET (1 .. Len(answers))
    OBVIOUS
  <2> QED
    BY <2>1, <2>2, FS_Subset, FS_CardinalityType
<1>2. PICK at \in Bijection(1 .. n, stays) : answers' = [i \in 1 .. n |-> answers[at[i]]]
  BY Zenon DEF Retain
<1>3. at \in [1 .. n -> stays] /\ \A j \in stays : \E i \in 1 .. n : at[i] = j
  BY <1>2 DEF Bijection, Injection, Surjection
<1> HIDE DEF n
<1>4. answers' \in Seq(Answer) /\ DOMAIN answers' = 1 .. n
  <2>1. \A i \in 1 .. n : answers[at[i]] \in Answer
    BY <1>3
  <2> QED
    BY <1>1, <1>2, <2>1
<1> QED
  BY <1>2, <1>3, <1>4, Zenon

\* ORDER BY created_at LIMIT n: while rows are added at the end and none before
\* begins to wait, what was among the oldest waiting rows is until it waits no
\* longer.
LEMMA WindowStays ==
  ASSUME TypeOK, TypeOK',
         \A i \in DOMAIN order :
           /\ i \in DOMAIN order' /\ order'[i] = order[i]
           /\ status'[order[i]] = "pending" /\ order[i] \notin aged' => Waiting(order[i])
  PROVE  \A r \in pending : Waiting(r)' => r \in pending'
<1> TAKE r \in pending
<1> HAVE Waiting(r)'
<1>1. PICK n \in DOMAIN order :
        r = order[n] /\ Cardinality({j \in 1 .. n : Waiting(order[j])}) <= MaxRequests
  BY Zenon DEF pending
<1>2. n \in Nat /\ \A j \in 1 .. n : j \in DOMAIN order
  <2>1. order \in Seq(Request)
    BY DEF TypeOK
  <2>2. Len(order) \in Nat /\ DOMAIN order = 1 .. Len(order)
    BY <2>1
  <2> QED
    BY <2>2
<1> DEFINE old == {j \in 1 .. n : Waiting(order[j])}
           new == {j \in 1 .. n : Waiting(order[j])'}
<1>3. new \in SUBSET old
  <2> SUFFICES ASSUME NEW j \in 1 .. n, Waiting(order[j])'
               PROVE  Waiting(order[j])
    OBVIOUS
  <2>1. order'[j] = order[j]
    BY <1>2
  <2>2. status'[order[j]] = "pending" /\ order[j] \notin aged'
    BY <2>1 DEF Waiting
  <2> QED
    BY <1>2, <2>2
<1>4. IsFiniteSet(old)
  <2>1. 1 \in Int /\ n \in Int
    BY <1>2
  <2>2. IsFiniteSet(1 .. n)
    BY <2>1, FS_Interval
  <2>3. old \in SUBSET (1 .. n)
    OBVIOUS
  <2> QED
    BY <2>2, <2>3, FS_Subset, Zenon
<1>5. Cardinality(new) <= MaxRequests
  BY <1>1, <1>3, <1>4, FS_Subset, FS_CardinalityType, BoundsAssumption
<1>6. n \in DOMAIN order' /\ r = order'[n]
  BY <1>1
<1> QED
  BY <1>5, <1>6, Zenon DEF pending

-----------------------------------------------------------------------------
LEMMA IdleType == Idle \in [at : {"idle", "approving", "opened", "refusing"}, id : Request]
<1>1. (CHOOSE r \in Request : TRUE) \in Request
  BY RequestAssumption
<1> QED
  BY <1>1 DEF Idle

LEMMA PendingType == order \in Seq(Request) => pending \in SUBSET Request
<1> SUFFICES ASSUME order \in Seq(Request), NEW r \in pending
             PROVE  r \in Request
  OBVIOUS
<1>1. PICK i \in DOMAIN order : r = order[i]
  BY Zenon DEF pending
<1> QED
  BY <1>1

LEMMA InitInv == Init => Inv
<1> SUFFICES ASSUME Init PROVE Inv
  OBVIOUS
<1> USE DEF Init
<1>1. TypeOK
  <2>1. <<>> \in Seq(Request) /\ <<>> \in Seq(Answer)
    OBVIOUS
  <2>2. 0 \in 0 .. MaxRestarts
    BY BoundsAssumption
  <2> QED
    BY <2>1, <2>2, IdleType, Zenon DEF TypeOK
<1>2. RowsAreMade /\ OpenedFirst /\ OneLive /\ ReplyFits
  BY DEF RowsAreMade, OpenedFirst, OneLive, ReplyFits, Idle
<1>3. ToldIsListed
  BY DEF ToldIsListed, Seen
<1>4. AnsweredWasTold
  BY DEF AnsweredWasTold, Idle
<1> QED
  BY <1>1, <1>2, <1>3, <1>4 DEF Inv

\* Requests::listed journals only what was not listed, and that the connector
\* was not told of before, or that was pushed off the list.
LEMMA ReceivedRises ==
  ASSUME Inv, NEW m \in flight, Receive(m), NEW r \in Request
  PROVE  /\ received'[r] = IF r \in m.list \ listed THEN received[r] + 1 ELSE received[r]
         /\ r \notin pushed => received'[r] \in 0 .. 1
         /\ r \in m.list \ listed /\ r \notin pushed => ~Seen(r)
         /\ received[r] \in Nat
<1>1. received[r] \in Nat /\ (r \notin pushed => received[r] <= 1)
  BY DEF Inv, TypeOK, ToldIsListed
<1>2. received'[r] = IF r \in m.list \ listed THEN received[r] + 1 ELSE received[r]
  BY <1>1 DEF Receive
<1>3. r \in m.list \ listed /\ r \notin pushed => ~Seen(r)
  BY DEF Inv, ReplyFits, Receive
<1> QED
  BY <1>1, <1>2, <1>3 DEF Seen

LEMMA TypeStep ==
  ASSUME Inv, [Next]_vars
  PROVE  TypeOK'
<1> USE DEF Inv, TypeOK, server, memory
<1>1. ASSUME NEW r \in Request, CreateCheck(r) \/ CreateInsert(r) \/ Withdraw(r) \/ Age(r)
      PROVE  TypeOK'
  <2>1. Append(order, r) \in Seq(Request)
    OBVIOUS
  <2>2. CASE CreateCheck(r)
    BY <2>1, <2>2 DEF CreateCheck
  <2>3. CASE CreateInsert(r)
    <3>1. pushed' \in SUBSET Request
      BY <2>3, PendingType, Zenon DEF CreateInsert
    <3> QED
      BY <2>3, <3>1 DEF CreateInsert
  <2>4. CASE Withdraw(r)
    BY <2>4 DEF Withdraw
  <2>5. CASE Age(r)
    BY <2>5 DEF Age
  <2> QED
    BY <1>1, <2>2, <2>3, <2>4, <2>5
<1>2. ASSUME NEW u \in User, NEW r \in Request, NEW what \in {"approving", "refusing"}, Take(u, r, what)
      PROVE  TypeOK'
  BY <1>2 DEF Take
<1>3. ASSUME NEW u \in User, Store(u) \/ GiveAnswer(u)
      PROVE  TypeOK'
  <2>1. [id |-> ui[u].id, approved |-> ui[u].at = "opened"] \in Answer
    BY DEF Answer
  <2>2. CASE Store(u)
    <3>1. ui' \in [User -> [at : {"idle", "approving", "opened", "refusing"}, id : Request]]
      <4>1. [ui EXCEPT ![u].at = "opened"]
              \in [User -> [at : {"idle", "approving", "opened", "refusing"}, id : Request]]
        BY Zenon
      <4>2. [ui EXCEPT ![u] = Idle]
              \in [User -> [at : {"idle", "approving", "opened", "refusing"}, id : Request]]
        BY IdleType
      <4> QED
        BY <2>2, <4>1, <4>2, Zenon DEF Store
    <3>2. opened' \in SUBSET Request
      BY <2>2 DEF Store
    <3> QED
      BY <2>2, <3>1, <3>2 DEF Store
  <2>3. CASE GiveAnswer(u)
    <3>1. Append(answers, [id |-> ui[u].id, approved |-> ui[u].at = "opened"]) \in Seq(Answer)
      BY <2>1
    <3>2. answers' \in Seq(Answer) /\ ui' \in [User -> [at : {"idle", "approving", "opened", "refusing"}, id : Request]]
      BY <2>3, <3>1, IdleType DEF GiveAnswer
    <3> QED
      BY <2>3, <3>2 DEF GiveAnswer
  <2> QED
    BY <1>3, <2>2, <2>3
<1>4. CASE SendReport
  <2>1. [live |-> TRUE, at |-> "net", answers |-> answers, list |-> {}, ok |-> TRUE] \in Report
    BY DEF Report
  <2> QED
    BY <1>4, <2>1, Zenon DEF SendReport
<1>5. ASSUME NEW m \in flight, NEW n \in Report, Moves(m, n) \/ flight' = flight \ {m}
      PROVE  flight' \subseteq Report
  BY <1>5 DEF Moves
<1>6. ASSUME NEW m \in flight, Accept(m) \/ RecordAnswer(m) \/ Reply(m) \/ GiveUp(m) \/ Drop(m)
      PROVE  TypeOK'
  <2>1. m \in Report
    OBVIOUS
  <2>a. pending \in SUBSET Request
    BY PendingType
  <2>2. /\ [m EXCEPT !.at = "server"] \in Report
        /\ [m EXCEPT !.at = "reply", !.answers = <<>>, !.ok = FALSE] \in Report
        /\ [m EXCEPT !.at = "reply", !.list = pending] \in Report
        /\ [m EXCEPT !.live = FALSE] \in Report
    <3>1. <<>> \in Seq(Answer)
      OBVIOUS
    <3> QED
      BY <2>1, <2>a, <3>1, Zenon DEF Report
  <2>3. CASE Accept(m)
    BY <2>2, <2>3, <1>5 DEF Accept
  <2>4. CASE RecordAnswer(m)
    <3>1. Head(m.answers) \in Answer /\ Tail(m.answers) \in Seq(Answer)
      BY <2>1, <2>4 DEF Report, RecordAnswer
    <3>2. [m EXCEPT !.answers = Tail(@)] \in Report
      BY <2>1, <3>1, Zenon DEF Report
    <3> QED
      BY <2>4, <3>1, <3>2, <1>5 DEF RecordAnswer, Answer
  <2>5. CASE Reply(m)
    BY <2>2, <2>5, <1>5 DEF Reply
  <2>6. CASE GiveUp(m)
    BY <2>2, <2>6, <1>5, Zenon DEF GiveUp
  <2>7. CASE Drop(m)
    BY <2>7 DEF Drop
  <2> QED
    BY <1>6, <2>3, <2>4, <2>5, <2>6, <2>7
<1>7. ASSUME NEW m \in flight, Receive(m)
      PROVE  TypeOK'
  <2>1. received' \in [Request -> Nat]
    BY <1>7 DEF Receive
  <2>2. answers' \in Seq(Answer) /\ m.list \in SUBSET Request
    BY <1>7, RetainKeeps DEF Receive, Report
  <2> QED
    BY <1>7, <2>1, <2>2, Zenon DEF Receive
<1>8. CASE Restart
  <2>1. \A m \in flight : [m EXCEPT !.live = FALSE] \in Report
    BY Zenon DEF Report
  <2>2. flight' \subseteq Report
    BY <1>8, <2>1 DEF Restart
  <2>3. restarts' \in 0 .. MaxRestarts /\ <<>> \in Seq(Answer)
    BY <1>8, BoundsAssumption DEF Restart
  <2> QED
    BY <1>8, <2>2, <2>3, IdleType, Zenon DEF Restart
<1>9. CASE UNCHANGED vars
  BY <1>9 DEF vars
<1> QED
  BY <1>1, <1>2, <1>3, <1>4, <1>6, <1>7, <1>8, <1>9, Zenon DEF Next

\* What a step does to the table: it does not touch it, or it is one of the
\* users' steps, or it records an answer.
LEMMA TableSteps ==
  ASSUME [Next]_vars
  PROVE  \/ UNCHANGED server
         \/ \E r \in Request : CreateCheck(r) \/ CreateInsert(r) \/ Withdraw(r) \/ Age(r)
         \/ \E m \in flight : RecordAnswer(m)
  BY Zenon DEF Next, vars, server, Take, Store, GiveAnswer, SendReport, Accept, Reply, Receive,
         GiveUp, Drop, Restart

\* What was pushed off the list is marked for good.
LEMMA PushedStays ==
  ASSUME [Next]_vars
  PROVE  pushed \subseteq pushed'
  BY TableSteps, Zenon DEF server, CreateCheck, CreateInsert, Withdraw, Age, RecordAnswer

\* answer(): only a pending row changes, and only to the head's answer.
LEMMA RecordOne ==
  ASSUME TypeOK, NEW m \in flight, RecordAnswer(m)
  PROVE  /\ Head(m.answers) \in Answer
         /\ Head(m.answers) = m.answers[1] /\ 1 \in DOMAIN m.answers
         /\ \A r \in Request :
              \/ status'[r] = status[r]
              \/ /\ status[r] = "pending" /\ r = Head(m.answers).id
                 /\ status'[r] = IF Head(m.answers).approved THEN "approved" ELSE "refused"
<1>1. m.answers \in Seq(Answer) /\ m.answers # <<>>
  BY DEF TypeOK, Report, RecordAnswer
<1>2. Head(m.answers) \in Answer /\ Head(m.answers) = m.answers[1] /\ 1 \in DOMAIN m.answers
  BY <1>1
<1>3. status' = [status EXCEPT ![Head(m.answers).id] =
                   IF @ = "pending"
                   THEN IF Head(m.answers).approved THEN "approved" ELSE "refused" ELSE @]
  BY DEF RecordAnswer
<1> QED
  BY <1>2, <1>3 DEF TypeOK

LEMMA RowsStep ==
  ASSUME Inv, [Next]_vars
  PROVE  RowsAreMade'
<1> USE DEF Inv, TypeOK, RowsAreMade, server
<1>1. CASE UNCHANGED server
  BY <1>1
<1>2. ASSUME NEW r \in Request, CreateCheck(r)
      PROVE  RowsAreMade'
  <2>1. \A i \in DOMAIN order' : order'[i] = r \/ (i \in DOMAIN order /\ order'[i] = order[i])
    BY <1>2 DEF CreateCheck
  <2> QED
    BY <1>2, <2>1, Zenon DEF CreateCheck
<1>3. ASSUME NEW r \in Request, CreateInsert(r)
      PROVE  RowsAreMade'
  <2>1. order' = order /\ asking' = asking \ {r}
    BY <1>3 DEF CreateInsert
  <2>2. status'[r] = "pending" /\ \A q \in Request \ {r} : status'[q] = status[q]
    BY <1>3 DEF CreateInsert
  <2> QED
    BY <1>3, <2>1, <2>2 DEF CreateInsert
<1>4. ASSUME NEW r \in Request, Withdraw(r) \/ Age(r)
      PROVE  RowsAreMade'
  <2>1. \A q \in Request : status'[q] = "none" <=> status[q] = "none"
    BY <1>4 DEF Withdraw, Age
  <2> QED
    BY <1>4, <2>1 DEF Withdraw, Age
<1>5. ASSUME NEW m \in flight, RecordAnswer(m)
      PROVE  RowsAreMade'
  <2>1. \A q \in Request : status'[q] = "none" <=> status[q] = "none"
    BY <1>5, RecordOne, Zenon
  <2> QED
    BY <1>5, <2>1 DEF RecordAnswer
<1> QED
  BY <1>1, <1>2, <1>3, <1>4, <1>5, TableSteps

\* A request that waits no longer never waits again, and one among the oldest
\* that wait stays there until then, or is pushed off.
LEMMA WaitingEnds ==
  ASSUME Inv, [Next]_vars, NEW r \in Request
  PROVE  /\ Closed(r) => Closed(r)'
         /\ r \in pending => r \in pending' \/ Closed(r)'
<1> DEFINE NoneWaitsAgain ==
             \A q \in Request : status[q] # "none" =>
               status'[q] # "none" /\ (status'[q] = "pending" /\ q \notin aged' => Waiting(q))
           RowsStay == \A i \in DOMAIN order : i \in DOMAIN order' /\ order'[i] = order[i]
           NoneStored == \A q \in asking : status'[q] = "none"
<1>1. NoneWaitsAgain
  <2> USE DEF Inv, TypeOK, RowsAreMade, Waiting
  <2>1. CASE UNCHANGED server
    BY <2>1 DEF server
  <2>2. ASSUME NEW q \in Request, CreateCheck(q) \/ CreateInsert(q) \/ Withdraw(q) \/ Age(q)
        PROVE  NoneWaitsAgain
    BY <2>2 DEF CreateCheck, CreateInsert, Withdraw, Age
  <2>3. ASSUME NEW m \in flight, RecordAnswer(m)
        PROVE  NoneWaitsAgain
    BY <2>3, RecordOne DEF RecordAnswer
  <2> QED
    BY <2>1, <2>2, <2>3, TableSteps
<1>2. pushed \subseteq pushed'
  BY PushedStays
<1>3. ASSUME NEW q \in Request, CreateInsert(q)
      PROVE  \A p \in pending : p \in pending' \/ p \in pushed'
  BY <1>3, Zenon DEF CreateInsert
<1>4. \/ \E q \in Request : CreateInsert(q)
      \/ RowsStay /\ NoneStored
  <2> USE DEF Inv, TypeOK, RowsAreMade
  <2>1. CASE UNCHANGED server
    BY <2>1 DEF server
  <2>2. ASSUME NEW q \in Request, CreateCheck(q)
        PROVE  RowsStay /\ NoneStored
    BY <2>2 DEF CreateCheck
  <2>3. ASSUME NEW q \in Request, Withdraw(q) \/ Age(q)
        PROVE  RowsStay /\ NoneStored
    BY <2>3 DEF Withdraw, Age
  <2>4. ASSUME NEW m \in flight, RecordAnswer(m)
        PROVE  RowsStay /\ NoneStored
    BY <2>4, RecordOne DEF RecordAnswer
  <2> QED
    BY <2>1, <2>2, <2>3, <2>4, TableSteps, Zenon
<1>5. \A q \in pending : q \in Request /\ status[q] # "none"
  BY PendingType, Zenon DEF Inv, TypeOK, pending, Waiting
<1>6. ASSUME RowsStay, NoneStored
      PROVE  \A q \in pending : Waiting(q)' => q \in pending'
  <2>1. \A i \in DOMAIN order : order[i] \in Request /\ (status[order[i]] # "none" \/ order[i] \in asking)
    BY DEF Inv, TypeOK, RowsAreMade
  <2>2. \A i \in DOMAIN order :
          status'[order[i]] = "pending" /\ order[i] \notin aged' => Waiting(order[i])
    BY <1>1, <1>6, <2>1
  <2> QED
    BY <1>6, <2>2, TypeStep, WindowStays DEF Inv
<1> QED
  BY <1>1, <1>2, <1>3, <1>4, <1>5, <1>6 DEF Closed, Waiting

LEMMA OpenedStep ==
  ASSUME Inv, [Next]_vars
  PROVE  OpenedFirst'
<1> USE DEF Inv, TypeOK, OpenedFirst, server, memory
<1>1. ASSUME NEW r \in Request, CreateCheck(r) \/ CreateInsert(r) \/ Withdraw(r) \/ Age(r)
      PROVE  OpenedFirst'
  <2>1. UNCHANGED <<answers, flight, ui, opened>>
    BY <1>1 DEF CreateCheck, CreateInsert, Withdraw, Age
  <2>2. ASSUME NEW q \in Request, status'[q] = "approved"
        PROVE  status[q] = "approved"
    <3>1. CASE CreateCheck(r) \/ Age(r)
      BY <2>2, <3>1 DEF CreateCheck, Age
    <3>2. CASE CreateInsert(r)
      BY <2>2, <3>2 DEF CreateInsert
    <3>3. CASE Withdraw(r)
      BY <2>2, <3>3 DEF Withdraw
    <3> QED
      BY <1>1, <3>1, <3>2, <3>3
  <2> QED
    BY <2>1, <2>2
<1>2. ASSUME NEW u \in User, NEW r \in Request, Take(u, r, "approving") \/ Take(u, r, "refusing")
      PROVE  OpenedFirst'
  <2>1. \A v \in User : v # u => ui'[v] = ui[v]
    BY <1>2 DEF Take
  <2>2. ui'[u].at # "opened"
    BY <1>2 DEF Take
  <2> QED
    BY <1>2, <2>1, <2>2, Zenon DEF Take
<1>3. ASSUME NEW u \in User, Store(u)
      PROVE  OpenedFirst'
  <2>1. \A v \in User : v # u => ui'[v] = ui[v]
    BY <1>3 DEF Store
  <2>2. opened \subseteq opened' /\ (ui'[u].at = "opened" => ui'[u].id \in opened')
    BY <1>3 DEF Store, Idle
  <2> QED
    BY <1>3, <2>1, <2>2, Zenon DEF Store
<1>4. ASSUME NEW u \in User, GiveAnswer(u)
      PROVE  OpenedFirst'
  <2> DEFINE new == [id |-> ui[u].id, approved |-> ui[u].at = "opened"]
  <2>1. new.approved => new.id \in opened
    BY Zenon
  <2>2. answers' = Append(answers, new)
    BY <1>4 DEF GiveAnswer
  <2> HIDE DEF new
  <2>3. \A i \in DOMAIN answers' : answers'[i] = new \/ (i \in DOMAIN answers /\ answers'[i] = answers[i])
    BY <2>2
  <2>4. \A i \in DOMAIN answers' : answers'[i].approved => answers'[i].id \in opened
    BY <2>1, <2>3
  <2>5. \A v \in User : v # u => ui'[v] = ui[v]
    BY <1>4 DEF GiveAnswer
  <2>6. ui'[u].at # "opened"
    BY <1>4 DEF GiveAnswer, Idle
  <2> QED
    BY <1>4, <2>4, <2>5, <2>6 DEF GiveAnswer
<1>5. CASE SendReport
  BY <1>5 DEF SendReport
<1>6. ASSUME NEW m \in flight, Accept(m) \/ Reply(m) \/ GiveUp(m) \/ Drop(m)
      PROVE  OpenedFirst'
  <2>1. \A n \in flight' : n.answers = <<>> \/ \E k \in flight : n.answers = k.answers
    <3>1. m \in Report
      OBVIOUS
    <3>2. /\ [m EXCEPT !.at = "server"].answers = m.answers
          /\ [m EXCEPT !.at = "reply", !.answers = <<>>, !.ok = FALSE].answers = <<>>
          /\ [m EXCEPT !.at = "reply", !.list = pending].answers = m.answers
          /\ [m EXCEPT !.live = FALSE].answers = m.answers
      BY <3>1 DEF Report
    <3> QED
      BY <1>6, <3>2, Zenon DEF Accept, Reply, GiveUp, Drop, Moves
  <2>2. \A n \in flight' : \A i \in DOMAIN n.answers :
          n.answers[i].approved => n.answers[i].id \in opened
    BY <2>1
  <2> QED
    BY <1>6, <2>2 DEF Accept, Reply, GiveUp, Drop
<1>7. ASSUME NEW m \in flight, RecordAnswer(m)
      PROVE  OpenedFirst'
  <2>1. m.answers \in Seq(Answer) /\ m.answers # <<>>
    BY <1>7 DEF Report, RecordAnswer
  <2>2. \A i \in DOMAIN Tail(m.answers) :
          i + 1 \in DOMAIN m.answers /\ Tail(m.answers)[i] = m.answers[i + 1]
    BY <2>1
  <2>3. \A n \in flight' : n \in flight \/ n.answers = Tail(m.answers)
    BY <1>7, Zenon DEF RecordAnswer, Moves, Report
  <2>4. \A n \in flight' : \A i \in DOMAIN n.answers :
          n.answers[i].approved => n.answers[i].id \in opened
    BY <2>2, <2>3, Zenon
  <2>5. \A r \in Request : status'[r] = "approved" => r \in opened
    <3>1. Head(m.answers).approved => Head(m.answers).id \in opened
      BY <1>7, RecordOne
    <3>2. opened' = opened
      BY <1>7 DEF RecordAnswer
    <3> QED
      BY <1>7, <3>1, <3>2, RecordOne
  <2> QED
    BY <1>7, <2>4, <2>5 DEF RecordAnswer
<1>8. ASSUME NEW m \in flight, Receive(m)
      PROVE  OpenedFirst'
  <2>1. \A i \in DOMAIN answers' : \E j \in DOMAIN answers : answers'[i] = answers[j]
    BY <1>8, RetainKeeps DEF Receive
  <2> QED
    BY <1>8, <2>1 DEF Receive
<1>9. CASE Restart
  <2>1. \A n \in flight' : \E k \in flight : n.answers = k.answers
    BY <1>9 DEF Restart, Report
  <2>2. \A u \in User : ui'[u].at # "opened"
    BY <1>9 DEF Restart, Idle
  <2>3. answers' = <<>> /\ opened' = opened /\ status' = status
    BY <1>9 DEF Restart
  <2>4. ASSUME NEW n \in flight', NEW i \in DOMAIN n.answers, n.answers[i].approved
        PROVE  n.answers[i].id \in opened
    <3>1. PICK k \in flight : n.answers = k.answers
      BY <2>1
    <3> QED
      BY <2>4, <3>1
  <2> QED
    BY <2>2, <2>3, <2>4
<1>10. CASE UNCHANGED vars
  BY <1>10 DEF vars
<1> QED
  BY <1>1, <1>2, <1>3, <1>4, <1>5, <1>6, <1>7, <1>8, <1>9, <1>10, Zenon DEF Next

LEMMA LiveStep ==
  ASSUME Inv, [Next]_vars
  PROVE  OneLive'
<1> USE DEF Inv, TypeOK, OneLive, server, memory
<1>1. CASE UNCHANGED <<reporting, flight>>
  BY <1>1
<1>2. CASE SendReport
  BY <1>2, Zenon DEF SendReport
<1>3. ASSUME NEW m \in flight, Accept(m) \/ RecordAnswer(m) \/ Reply(m)
      PROVE  OneLive'
  <2>1. PICK n : Moves(m, n) /\ n.live = m.live
    <3>1. m \in Report
      OBVIOUS
    <3>2. /\ [m EXCEPT !.at = "server"].live = m.live
          /\ [m EXCEPT !.at = "reply", !.answers = <<>>, !.ok = FALSE].live = m.live
          /\ [m EXCEPT !.at = "reply", !.list = pending].live = m.live
          /\ [m EXCEPT !.answers = Tail(@)].live = m.live
      BY <3>1 DEF Report
    <3> QED
      BY <1>3, <3>2, Zenon DEF Accept, RecordAnswer, Reply
  <2> QED
    BY <1>3, <2>1 DEF Accept, RecordAnswer, Reply, Moves
<1>4. ASSUME NEW m \in flight, Receive(m) \/ GiveUp(m) \/ Drop(m)
      PROVE  OneLive'
  <2>1. [m EXCEPT !.live = FALSE].live = FALSE
    BY DEF Report
  <2> QED
    BY <1>4, <2>1, Zenon DEF Receive, GiveUp, Drop, Moves
<1>5. CASE Restart
  <2>1. \A n \in flight' : n.live = FALSE
    BY <1>5 DEF Restart, Report
  <2> QED
    BY <2>1
<1> QED
  BY <1>1, <1>2, <1>3, <1>4, <1>5, Zenon
     DEF Next, vars, CreateCheck, CreateInsert, Withdraw, Age, Take, Store, GiveAnswer

\* A list on its way was there before, or it has just been read.
LEMMA NewReplies ==
  ASSUME TypeOK, [Next]_vars, NEW n \in flight', n.live, n.at = "reply", n.ok
  PROVE  n \in flight \/ \E m \in flight : Reply(m) /\ n.list = pending
<1> USE DEF TypeOK
<1>1. CASE UNCHANGED flight
  BY <1>1
<1>2. CASE SendReport
  BY <1>2 DEF SendReport
<1>3. ASSUME NEW m \in flight,
             Accept(m) \/ RecordAnswer(m) \/ Receive(m) \/ GiveUp(m) \/ Drop(m)
      PROVE  n \in flight
  <2>1. m \in Report
    OBVIOUS
  <2>2. /\ [m EXCEPT !.at = "server"].at # "reply"
        /\ [m EXCEPT !.at = "reply", !.answers = <<>>, !.ok = FALSE].ok = FALSE
        /\ [m EXCEPT !.answers = Tail(@)].at = m.at
        /\ [m EXCEPT !.live = FALSE].live = FALSE
    BY <2>1 DEF Report
  <2> QED
    BY <1>3, <2>2, Zenon DEF Accept, RecordAnswer, Receive, GiveUp, Drop, Moves
<1>4. ASSUME NEW m \in flight, Reply(m)
      PROVE  n \in flight \/ n.list = pending
  BY <1>4, Zenon DEF Reply, Moves, Report
<1>5. CASE Restart
  BY <1>5 DEF Restart, Report
<1> QED
  BY <1>1, <1>2, <1>3, <1>4, <1>5, Zenon
     DEF Next, vars, CreateCheck, CreateInsert, Withdraw, Age, Take, Store, GiveAnswer

\* Only Receive and Restart change what the connector was told and lists.
LEMMA ListSteps ==
  ASSUME [Next]_vars
  PROVE  \/ UNCHANGED <<listed, received>>
         \/ \E m \in flight : Receive(m)
         \/ Restart
  BY Zenon DEF Next, vars, memory, CreateCheck, CreateInsert, Withdraw, Age, Take, Store, GiveAnswer,
         SendReport, Accept, RecordAnswer, Reply, GiveUp, Drop

LEMMA ToldStep ==
  ASSUME Inv, [Next]_vars
  PROVE  ToldIsListed' /\ ReplyFits'
<1>0. pushed \subseteq pushed'
  BY PushedStays
<1>1. CASE UNCHANGED <<listed, received>>
  <2>1. \A r \in Request : Seen(r)' <=> Seen(r)
    BY <1>1 DEF Seen
  <2>2. ToldIsListed'
    BY <1>0, <1>1, <2>1, WaitingEnds DEF Inv, ToldIsListed
  <2>3. ASSUME NEW n \in flight', NEW r \in Request, n.live, n.at = "reply", n.ok
        PROVE  /\ r \in n.list => r \in pending' \/ Closed(r)'
               /\ Seen(r)' /\ r \notin n.list => Closed(r)'
               /\ Seen(r)' /\ r \in n.list => r \in listed' \/ r \in pushed'
    <3>1. CASE n \in flight
      BY <1>0, <1>1, <2>1, <2>3, <3>1, WaitingEnds DEF Inv, ReplyFits
    <3>2. CASE n.list = pending
      <4>1. r \in pending => ~Closed(r) \/ r \in pushed
        BY Zenon DEF pending, Closed
      <4>2. /\ Seen(r) /\ r \notin pending => Closed(r)
            /\ Seen(r) /\ r \in pending => r \in listed \/ r \in pushed
        BY <4>1 DEF Inv, ToldIsListed
      <4> QED
        BY <1>0, <1>1, <2>1, <3>2, <4>2, WaitingEnds
    <3> QED
      BY <2>3, <3>1, <3>2, NewReplies DEF Inv
  <2> QED
    BY <2>2, <2>3 DEF ReplyFits
<1>2. ASSUME NEW m \in flight, Receive(m)
      PROVE  ToldIsListed' /\ ReplyFits'
  <2>1. \A n \in flight' : ~n.live
    BY <1>2 DEF Inv, OneLive, Receive
  <2>2. ASSUME NEW r \in Request
        PROVE  /\ r \notin pushed' => received'[r] <= 1
               /\ Seen(r)' => r \in pending' \/ Closed(r)'
               /\ Seen(r)' /\ r \notin listed' => Closed(r)'
               /\ r \in listed' => Seen(r)'
    <3>1. /\ r \in m.list => r \in pending \/ Closed(r)
          /\ Seen(r) /\ r \notin m.list => Closed(r)
      BY <1>2 DEF Inv, ReplyFits, Receive
    <3>2. /\ r \notin pushed' => received'[r] <= 1
          /\ received[r] \in Nat
          /\ received'[r] = IF r \in m.list \ listed THEN received[r] + 1 ELSE received[r]
      <4>1. received[r] \in Nat
        BY DEF Inv, TypeOK
      <4>2. /\ received'[r] = IF r \in m.list \ listed THEN received[r] + 1 ELSE received[r]
            /\ r \notin pushed => received'[r] \in 0 .. 1
        BY <1>2, ReceivedRises
      <4> QED
        BY <1>0, <4>1, <4>2
    <3>3. Seen(r)' <=> Seen(r) \/ r \in m.list \ listed
      BY <3>2 DEF Seen
    <3>4. r \in listed => Seen(r)
      BY DEF Inv, ToldIsListed
    <3>5. Seen(r) => r \in pending \/ Closed(r)
      BY DEF Inv, ToldIsListed
    <3>6. listed' = m.list
      BY <1>2 DEF Receive
    <3> QED
      BY <3>1, <3>2, <3>3, <3>4, <3>5, <3>6, WaitingEnds
  <2> QED
    BY <2>1, <2>2 DEF ToldIsListed, ReplyFits
<1>3. CASE Restart
  <2>1. \A n \in flight' : n.live = FALSE
    BY <1>3 DEF Restart, Report, Inv, TypeOK
  <2>2. listed' = {} /\ \A r \in Request : received'[r] = 0
    BY <1>3 DEF Restart
  <2> QED
    BY <2>1, <2>2 DEF ToldIsListed, ReplyFits, Seen
<1> QED
  BY <1>1, <1>2, <1>3, ListSteps

\* The answers are kept but for Receive, which drops those to requests that
\* left the list, and Restart.
LEMMA AnswersStep ==
  ASSUME Inv, [Next]_vars
  PROVE  AnsweredWasTold'
<1> USE DEF Inv, TypeOK, AnsweredWasTold, HasAnswer
<1>1. ASSUME NEW m \in flight, Receive(m)
      PROVE  AnsweredWasTold'
  <2>0. pushed' = pushed
    BY <1>1 DEF Receive, server
  <2>1. \A r \in Request : Seen(r) => Seen(r)'
    <3> SUFFICES ASSUME NEW r \in Request, Seen(r) PROVE Seen(r)'
      OBVIOUS
    <3> QED
      BY <1>1, ReceivedRises DEF Seen
  <2>2. ui' = ui /\ given' = given /\ listed' = m.list
    BY <1>1 DEF Receive
  <2>3. /\ \A i \in DOMAIN answers' : \E j \in DOMAIN answers : answers'[i] = answers[j]
        /\ \A j \in DOMAIN answers : answers[j].id \in m.list =>
             \E i \in DOMAIN answers' : answers'[i] = answers[j]
    BY <1>1, RetainKeeps DEF Receive
  <2>4. ASSUME NEW r \in given, r \in m.list, r \notin pushed
        PROVE  HasAnswer(r)'
    <3>1. r \in listed
      BY <1>1, <2>0, <2>4 DEF ReplyFits, Receive
    <3>2. PICK j \in DOMAIN answers : answers[j].id = r
      BY <2>4, <3>1
    <3> QED
      BY <2>3, <2>4, <3>2
  <2> QED
    BY <2>0, <2>1, <2>2, <2>3, <2>4
<1>2. CASE Restart
  BY <1>2 DEF Restart, Idle
<1>3. CASE UNCHANGED <<listed, received>>
  <2>0. pushed \subseteq pushed'
    BY PushedStays
  <2>1. \A r \in Request : Seen(r)' <=> Seen(r)
    BY <1>3 DEF Seen
  <2>2. CASE UNCHANGED <<ui, answers, given>>
    BY <1>3, <2>0, <2>1, <2>2
  <2>3. ASSUME NEW u \in User, NEW r \in Request, Take(u, r, "approving") \/ Take(u, r, "refusing")
        PROVE  AnsweredWasTold'
    <3>1. Seen(r)
      BY <2>3 DEF Take, ToldIsListed
    <3>2. \A v \in User : ui'[v] = ui[v] \/ ui'[v].id = r
      BY <2>3 DEF Take
    <3>3. UNCHANGED <<answers, given>>
      BY <2>3 DEF Take, memory
    <3> QED
      BY <1>3, <2>0, <2>1, <3>1, <3>2, <3>3, Zenon
  <2>4. ASSUME NEW u \in User, Store(u)
        PROVE  AnsweredWasTold'
    <3>1. \A v \in User : ui'[v].at = "idle" \/ (ui[v].at # "idle" /\ ui'[v].id = ui[v].id)
      <4>1. \A v \in User : v # u => ui'[v] = ui[v]
        BY <2>4 DEF Store
      <4>2. ui[u].at # "idle" /\ (ui'[u].at = "idle" \/ ui'[u].id = ui[u].id)
        BY <2>4 DEF Store, Idle
      <4> QED
        BY <4>1, <4>2
    <3>2. UNCHANGED <<answers, given>>
      BY <2>4 DEF Store, memory
    <3> QED
      BY <1>3, <2>0, <2>1, <3>1, <3>2
  <2>5. ASSUME NEW u \in User, GiveAnswer(u)
        PROVE  AnsweredWasTold'
    <3> DEFINE new == [id |-> ui[u].id, approved |-> ui[u].at = "opened"]
    <3>1. answers' = Append(answers, new) /\ given' = given \cup {ui[u].id} /\ ui[u].at # "idle"
      BY <2>5 DEF GiveAnswer
    <3>2. new.id = ui[u].id
      OBVIOUS
    <3> HIDE DEF new
    <3>3. /\ \A i \in DOMAIN answers' :
               answers'[i] = new \/ (i \in DOMAIN answers /\ answers'[i] = answers[i])
          /\ \A i \in DOMAIN answers : i \in DOMAIN answers' /\ answers'[i] = answers[i]
          /\ Len(answers) + 1 \in DOMAIN answers' /\ answers'[Len(answers) + 1] = new
      BY <3>1
    <3>4. \A v \in User : ui'[v].at = "idle" \/ ui'[v] = ui[v]
      BY <2>5 DEF GiveAnswer, Idle
    <3>5. ui[u].id \in Request /\ Seen(ui[u].id) /\ given \subseteq Request
      BY <3>1
    <3>6. ASSUME NEW v \in User, ui'[v].at # "idle"
          PROVE  received'[ui'[v].id] > 0
      <4>1. ui'[v] = ui[v] /\ ui[v].id \in Request
        BY <3>4, <3>6
      <4>2. Seen(ui[v].id)
        BY <3>6, <4>1
      <4> QED
        BY <1>3, <4>1, <4>2 DEF Seen
    <3>7. ASSUME NEW i \in DOMAIN answers'
          PROVE  answers'[i].id \in given'
      BY <3>1, <3>2, <3>3
    <3>8. ASSUME NEW r \in Request, r \in given'
          PROVE  Seen(r)' /\ (HasAnswer(r)' \/ r \notin listed' \/ r \in pushed')
      <4>1. CASE r = ui[u].id
        BY <1>3, <3>2, <3>3, <3>5, <4>1 DEF Seen
      <4>2. CASE r \in given
        <5>1. Seen(r) /\ (HasAnswer(r) \/ r \notin listed \/ r \in pushed)
          BY <4>2
        <5>2. HasAnswer(r) => HasAnswer(r)'
          BY <3>3
        <5> QED
          BY <1>3, <2>0, <5>1, <5>2 DEF Seen
      <4> QED
        BY <3>1, <3>8, <4>1, <4>2
    <3>9. given' \subseteq Request
      BY <3>1, <3>5
    <3> QED
      BY <3>6, <3>7, <3>8, <3>9 DEF Seen
  <2>6. UNCHANGED <<ui, answers, given>> \/ (\E u \in User : Store(u) \/ GiveAnswer(u))
         \/ (\E u \in User, r \in Request : Take(u, r, "approving") \/ Take(u, r, "refusing"))
         \/ (\E m \in flight : Receive(m)) \/ Restart
    BY Zenon DEF Next, vars, memory, CreateCheck, CreateInsert, Withdraw, Age,
           SendReport, Accept, RecordAnswer, Reply, GiveUp, Drop
  <2> QED
    BY <1>1, <1>2, <2>2, <2>3, <2>4, <2>5, <2>6
<1> QED
  BY <1>1, <1>2, <1>3, ListSteps

-----------------------------------------------------------------------------
LEMMA InvStep == Inv /\ [Next]_vars => Inv'
  BY TypeStep, RowsStep, OpenedStep, LiveStep, ToldStep, AnswersStep DEF Inv

LEMMA Invariant == Spec => []Inv
  BY InitInv, InvStep, PTL DEF Spec

\* Every state the code reaches is of the types declared.
THEOREM TypeCorrect == Spec => []TypeOK
<1>1. Inv => TypeOK
  BY DEF Inv
<1> QED
  BY <1>1, Invariant, PTL

\* What remotehub records as approved is in the customer's access.json
\* (approve_request stores the grant before it answers), however reports
\* cross and the connector restarts.
THEOREM ApprovedOnlyOpened == Spec => []ApprovedWasOpened
<1>1. Inv => ApprovedWasOpened
  BY DEF Inv, OpenedFirst, ApprovedWasOpened
<1> QED
  BY <1>1, Invariant, PTL

\* The connector's journal says at most once a run that a request came in
\* (Requests::listed), also when more wait than one list holds; only what was
\* pushed off the full list, by a request that began earlier and was stored
\* later, comes in again.
THEOREM JournaledOnce == Spec => []ReceivedOnce
<1>1. Inv => ReceivedOnce
  BY DEF Inv, ToldIsListed, ReceivedOnce
<1> QED
  BY <1>1, Invariant, PTL

\* An answered or withdrawn row changes no more.
LEMMA DecidedStaysLemma == Inv /\ [Next]_vars => DecidedStaysStep
<1> SUFFICES ASSUME Inv, [Next]_vars PROVE DecidedStaysStep
  OBVIOUS
<1> USE DEF Inv, TypeOK, RowsAreMade, DecidedStaysStep
<1>1. CASE UNCHANGED server
  BY <1>1 DEF server
<1>2. ASSUME NEW r \in Request, CreateCheck(r) \/ CreateInsert(r) \/ Withdraw(r) \/ Age(r)
      PROVE  DecidedStaysStep
  BY <1>2 DEF CreateCheck, CreateInsert, Withdraw, Age
<1>3. ASSUME NEW m \in flight, RecordAnswer(m)
      PROVE  DecidedStaysStep
  BY <1>3, RecordOne, Zenon
<1> QED
  BY <1>1, <1>2, <1>3, TableSteps

\* Only what is listed and has no answer is taken up, and what was answered
\* since the start has its answer or is listed no more.
LEMMA AskedOnceLemma == Inv /\ [Next]_vars => AskedOnceStep
<1> SUFFICES ASSUME Inv, [Next]_vars, NEW u \in User, ui[u].at = "idle", ui'[u].at # "idle"
             PROVE  ui'[u].id \notin given \ pushed
  BY DEF AskedOnceStep
<1> USE DEF Inv, TypeOK
<1>1. ASSUME NEW v \in User, NEW r \in Request, Take(v, r, "approving") \/ Take(v, r, "refusing")
      PROVE  ui'[u].id \notin given \ pushed
  <2>1. u = v /\ ui'[u].id = r /\ r \in listed /\ ~HasAnswer(r)
    BY <1>1 DEF Take
  <2> QED
    BY <2>1 DEF AnsweredWasTold
<1>2. ASSUME NEW v \in User, Store(v) \/ GiveAnswer(v)
      PROVE  FALSE
  <2>1. \A w \in User : w # v => ui'[w] = ui[w]
    BY <1>2 DEF Store, GiveAnswer
  <2>2. ui[v].at # "idle"
    BY <1>2 DEF Store, GiveAnswer
  <2> QED
    BY <2>1, <2>2, Zenon
<1>3. CASE Restart
  BY <1>3 DEF Restart, Idle
<1>4. CASE UNCHANGED ui
  BY <1>4
<1> QED
  BY <1>1, <1>2, <1>3, <1>4, Zenon
     DEF Next, vars, CreateCheck, CreateInsert, Withdraw, Age, SendReport, Accept, RecordAnswer,
         Reply, Receive, GiveUp, Drop

\* Receive drops the answers to what it no longer lists; those requests were
\* listed to the connector before, so they wait no longer or were pushed off.
LEMMA AnswerKeptLemma == Inv /\ [Next]_vars => AnswerKeptStep
<1> SUFFICES ASSUME Inv, [Next]_vars, restarts' = restarts,
                    NEW i \in DOMAIN answers, answers[i] \notin Range(answers')
             PROVE  ~Waiting(answers[i].id) \/ answers[i].id \in pushed
  BY DEF AnswerKeptStep
<1> USE DEF Inv, TypeOK
<1>1. CASE UNCHANGED answers
  BY <1>1 DEF Range
<1>2. ASSUME NEW u \in User, GiveAnswer(u)
      PROVE  FALSE
  <2>1. i \in DOMAIN answers' /\ answers'[i] = answers[i]
    BY <1>2 DEF GiveAnswer
  <2> QED
    BY <2>1 DEF Range
<1>3. ASSUME NEW m \in flight, Receive(m)
      PROVE  ~Waiting(answers[i].id) \/ answers[i].id \in pushed
  <2>1. answers[i].id \notin m.list
    BY <1>3, RetainKeeps DEF Receive, Range
  <2>2. answers[i].id \in Request /\ Seen(answers[i].id)
    BY DEF AnsweredWasTold
  <2> QED
    BY <1>3, <2>1, <2>2 DEF ReplyFits, Receive, Closed
<1>4. ~Restart
  BY DEF Restart
<1> QED
  BY <1>1, <1>2, <1>3, <1>4, Zenon
     DEF Next, vars, memory, CreateCheck, CreateInsert, Withdraw, Age, Take, Store, SendReport,
         Accept, RecordAnswer, Reply, GiveUp, Drop

\* Answers are final, the customer is asked once, and the connector keeps an
\* answer until the request waits no longer (connector_requests.rs, answer;
\* requests.rs, Requests); but for requests pushed off the full list.
THEOREM AnswersAlwaysHold == Spec => AnswersHold
<1>1. Inv /\ [Next]_vars => [DecidedStaysStep /\ AskedOnceStep /\ AnswerKeptStep]_vars
  BY DecidedStaysLemma, AskedOnceLemma, AnswerKeptLemma
<1> QED
  BY <1>1, Invariant, PTL DEF Spec, AnswersHold
=============================================================================
