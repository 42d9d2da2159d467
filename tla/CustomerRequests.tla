------------------------- MODULE CustomerRequests -------------------------
(***************************************************************************)
(* remotehub asks the customer for access (docs/adr/0013): a user's        *)
(* request waits in remotehub's table connector_requests                   *)
(* (api/connector_requests.rs); the answer to each state report of the     *)
(* connector lists the waiting ones (api/connectors.rs, report_state); the *)
(* connector keeps the list and the customer's answers in memory           *)
(* (connector/src/requests.rs), and sends the answers with every report    *)
(* until remotehub no longer lists the request (agent.rs, report).         *)
(*                                                                         *)
(* A report is one HTTP request. The connector sends the next one after    *)
(* the answer, an error or a timeout, but a report it has given up on may  *)
(* still be on its way or in the server's hands.                           *)
(***************************************************************************)
EXTENDS Naturals, Sequences, FiniteSets, Functions

CONSTANTS
  Request,      \* requests, each for one object of one requester
  Asks,         \* the requester and object of each
  User,         \* handlers of the connector's web interface
  MaxRequests,  \* protocol::MAX_REQUESTS
  MaxLate,      \* bound on the given up reports still under way
  MaxRestarts   \* bound on the connector's restarts

ASSUME BoundsAssumption ==
  MaxRequests \in Nat \ {0} /\ MaxLate \in Nat /\ MaxRestarts \in Nat

ASSUME RequestAssumption == Request # {}

VARIABLES
  status,    \* connector_requests.status
  order,     \* the requests in the order of created_at, from when it is taken
  asking,    \* requests whose creation found none waiting and is not stored yet
  aged,      \* requests made more than a day ago
  pushed,    \* history: requests an older one, stored later, pushed off the list
  listed,    \* Requests.listed, as a set
  answers,   \* Requests.answers
  received,  \* how often the journal says a request came in, since the connector started
  ui,        \* what each handler of the web interface is doing
  opened,    \* requests whose approval access.json got
  given,     \* requests the customer answered since the connector started
  reporting, \* the connector waits for the answer to a report
  flight,    \* the reports under way
  restarts

server == <<status, order, asking, aged, pushed>>
memory == <<listed, answers, received>>
vars == <<server, memory, ui, opened, given, reporting, flight, restarts>>

Answer == [id : Request, approved : BOOLEAN]
Idle == [at |-> "idle", id |-> CHOOSE r \in Request : TRUE]
Report == [live : BOOLEAN, at : {"net", "server", "reply"}, answers : Seq(Answer),
           list : SUBSET Request, ok : BOOLEAN]

TypeOK ==
  /\ status \in [Request -> {"none", "pending", "approved", "refused", "cancelled"}]
  /\ order \in Seq(Request)
  /\ asking \in SUBSET Request
  /\ aged \in SUBSET Request
  /\ pushed \in SUBSET Request
  /\ listed \in SUBSET Request
  /\ answers \in Seq(Answer)
  /\ received \in [Request -> Nat]
  /\ ui \in [User -> [at : {"idle", "approving", "opened", "refusing"}, id : Request]]
  /\ opened \in SUBSET Request
  /\ given \in SUBSET Request
  /\ reporting \in BOOLEAN
  /\ flight \subseteq Report
  /\ restarts \in 0 .. MaxRestarts

Init ==
  /\ status = [r \in Request |-> "none"]
  /\ order = <<>>
  /\ asking = {}
  /\ aged = {}
  /\ pushed = {}
  /\ listed = {}
  /\ answers = <<>>
  /\ received = [r \in Request |-> 0]
  /\ ui = [u \in User |-> Idle]
  /\ opened = {}
  /\ given = {}
  /\ reporting = FALSE
  /\ flight = {}
  /\ restarts = 0

-----------------------------------------------------------------------------
(* remotehub's users.                                                      *)

Waiting(r) == status[r] = "pending" /\ r \notin aged

\* connector_requests::pending: the oldest waiting requests, as many as the
\* connector takes. A row that is not stored yet does not wait.
pending ==
  {order[i] : i \in {n \in DOMAIN order :
                       /\ Waiting(order[n])
                       /\ Cardinality({j \in 1 .. n : Waiting(order[j])}) <= MaxRequests}}

\* connector_requests::create: a transaction begins, which gives created_at
\* (DEFAULT now()), and looks for a waiting request of the same user for the
\* same object ...
CreateCheck(r) ==
  /\ status[r] = "none"
  /\ r \notin asking
  /\ \A q \in Request : Asks[q] = Asks[r] => ~Waiting(q)
  /\ asking' = asking \cup {r}
  /\ order' = Append(order, r)
  /\ UNCHANGED <<status, aged, pushed, memory, ui, opened, given, reporting, flight, restarts>>

\* ... and stores the new one. If the list is full, a request that began later
\* and was stored before leaves it.
CreateInsert(r) ==
  /\ r \in asking
  /\ asking' = asking \ {r}
  /\ status' = [status EXCEPT ![r] = "pending"]
  /\ UNCHANGED <<order, aged>>
  /\ pushed' = pushed \cup (pending \ pending')
  /\ UNCHANGED <<memory, ui, opened, given, reporting, flight, restarts>>

\* connector_requests::withdraw, by the requester.
Withdraw(r) ==
  /\ status[r] = "pending"
  /\ status' = [status EXCEPT ![r] = "cancelled"]
  /\ UNCHANGED <<order, asking, aged, pushed, memory, ui, opened, given, reporting, flight, restarts>>

\* A day goes by.
Age(r) ==
  /\ Waiting(r)
  /\ aged' = aged \cup {r}
  /\ UNCHANGED <<status, order, asking, pushed, memory, ui, opened, given, reporting, flight, restarts>>

-----------------------------------------------------------------------------
(* The connector's web interface.                                          *)

HasAnswer(r) == \E i \in DOMAIN answers : answers[i].id = r

\* Fault: what the list shows can be answered, answered or not.
TakeListed(u, r, what) ==
  /\ ui[u].at = "idle"
  /\ r \in listed
  /\ ui' = [ui EXCEPT ![u] = [at |-> what, id |-> r]]
  /\ UNCHANGED <<server, memory, opened, given, reporting, flight, restarts>>

\* approve_request and refuse_request take the request, if it waits.
Take(u, r, what) ==
  /\ ui[u].at = "idle"
  /\ r \in listed
  /\ ~HasAnswer(r)
  /\ ui' = [ui EXCEPT ![u] = [at |-> what, id |-> r]]
  /\ UNCHANGED <<server, memory, opened, given, reporting, flight, restarts>>

\* access::approve stores the grant (module AccessStore), or cannot.
Store(u) ==
  /\ ui[u].at = "approving"
  /\ \/ /\ opened' = opened \cup {ui[u].id}
        /\ ui' = [ui EXCEPT ![u].at = "opened"]
     \/ /\ ui' = [ui EXCEPT ![u] = Idle]
        /\ UNCHANGED opened
  /\ UNCHANGED <<server, memory, given, reporting, flight, restarts>>

\* Fault: the answer goes out before the grant is stored.
GiveAnswerFirst(u) ==
  /\ ui[u].at \in {"approving", "opened", "refusing"}
  /\ answers' = Append(answers, [id |-> ui[u].id, approved |-> ui[u].at # "refusing"])
  /\ given' = given \cup {ui[u].id}
  /\ ui' = [ui EXCEPT ![u] = Idle]
  /\ UNCHANGED <<server, listed, received, opened, reporting, flight, restarts>>

\* Requests::answer, after the grant is stored or the refusal journaled.
GiveAnswer(u) ==
  /\ ui[u].at \in {"opened", "refusing"}
  /\ answers' = Append(answers, [id |-> ui[u].id, approved |-> ui[u].at = "opened"])
  /\ given' = given \cup {ui[u].id}
  /\ ui' = [ui EXCEPT ![u] = Idle]
  /\ UNCHANGED <<server, listed, received, opened, reporting, flight, restarts>>

-----------------------------------------------------------------------------
(* A report and its answer.                                                *)

\* agent::report posts the state with the answers given so far: on a change,
\* on an answer or after ten seconds, so at any time.
SendReport ==
  /\ ~reporting
  /\ reporting' = TRUE
  /\ flight' = flight \cup
       {[live |-> TRUE, at |-> "net", answers |-> answers, list |-> {}, ok |-> TRUE]}
  /\ UNCHANGED <<server, memory, ui, opened, given, restarts>>

Moves(m, n) == flight' = (flight \ {m}) \cup {n}

\* The server takes a report; checked_state refuses one with too many answers.
Accept(m) ==
  /\ m.at = "net"
  /\ \/ /\ Len(m.answers) <= MaxRequests
        /\ Moves(m, [m EXCEPT !.at = "server"])
     \/ /\ Len(m.answers) > MaxRequests
        /\ Moves(m, [m EXCEPT !.at = "reply", !.answers = <<>>, !.ok = FALSE])
  /\ UNCHANGED <<server, memory, ui, opened, given, reporting, restarts>>

\* Fault: an answer is recorded whatever the status.
RecordAny(m) ==
  /\ m.at = "server"
  /\ m.answers # <<>>
  /\ LET a == Head(m.answers)
     IN  status' = [status EXCEPT ![a.id] = IF a.approved THEN "approved" ELSE "refused"]
  /\ Moves(m, [m EXCEPT !.answers = Tail(@)])
  /\ UNCHANGED <<order, asking, aged, pushed, memory, ui, opened, given, reporting, restarts>>

\* connector_requests::answer records one answer, in a transaction of its
\* own, if the request is pending.
RecordAnswer(m) ==
  /\ m.at = "server"
  /\ m.answers # <<>>
  /\ LET a == Head(m.answers)
     IN  status' = [status EXCEPT ![a.id] =
                      IF @ = "pending" THEN IF a.approved THEN "approved" ELSE "refused" ELSE @]
  /\ Moves(m, [m EXCEPT !.answers = Tail(@)])
  /\ UNCHANGED <<order, asking, aged, pushed, memory, ui, opened, given, reporting, restarts>>

\* Once the answers are recorded, the server lists what waits.
Reply(m) ==
  /\ m.at = "server"
  /\ m.answers = <<>>
  /\ Moves(m, [m EXCEPT !.at = "reply", !.list = pending])
  /\ UNCHANGED <<server, memory, ui, opened, given, reporting, restarts>>

\* Fault: a report that went through took all answers along.
ReceiveDropsAnswers(m) ==
  /\ m.live /\ m.at = "reply" /\ m.ok
  /\ received' = [r \in Request |-> received[r] + IF r \in m.list \ listed THEN 1 ELSE 0]
  /\ answers' = <<>>
  /\ listed' = m.list
  /\ reporting' = FALSE
  /\ flight' = flight \ {m}
  /\ UNCHANGED <<server, ui, opened, given, restarts>>

\* Vec::retain: what answers a request on the list stays, in its order.
Retain(list) ==
  LET stays == {i \in DOMAIN answers : answers[i].id \in list}
      n     == Cardinality(stays)
  IN  \E at \in Bijection(1 .. n, stays) :
        /\ \A i, j \in 1 .. n : i < j => at[i] < at[j]
        /\ answers' = [i \in 1 .. n |-> answers[at[i]]]

\* Requests::listed takes the list; what it lists for the first time goes to
\* the journal, answers to what it no longer lists go.
Receive(m) ==
  /\ m.live /\ m.at = "reply" /\ m.ok
  /\ received' = [r \in Request |-> received[r] + IF r \in m.list \ listed THEN 1 ELSE 0]
  /\ Retain(m.list)
  /\ listed' = m.list
  /\ reporting' = FALSE
  /\ flight' = flight \ {m}
  /\ UNCHANGED <<server, ui, opened, given, restarts>>

\* Fault: a failed report empties the list.
GiveUpForgets(m) ==
  /\ m.live
  /\ reporting' = FALSE
  /\ listed' = {}
  /\ flight' = flight \ {m}
  /\ UNCHANGED <<server, answers, received, ui, opened, given, restarts>>

\* The report fails: refused, lost or timed out. What was listed stays. The
\* server may still get or be working on a report the connector gave up on.
GiveUp(m) ==
  /\ m.live
  /\ reporting' = FALSE
  /\ \/ flight' = flight \ {m}
     \/ /\ m.at # "reply"
        /\ Cardinality(flight) <= MaxLate
        /\ Moves(m, [m EXCEPT !.live = FALSE])
  /\ UNCHANGED <<server, memory, ui, opened, given, restarts>>

\* A report the connector gave up on is lost, fails, or its answer finds
\* nobody to read it.
Drop(m) ==
  /\ ~m.live
  /\ flight' = flight \ {m}
  /\ UNCHANGED <<server, memory, ui, opened, given, reporting, restarts>>

\* The connector's process starts again: list and answers were in memory.
Restart ==
  /\ restarts < MaxRestarts
  /\ restarts' = restarts + 1
  /\ listed' = {}
  /\ answers' = <<>>
  /\ received' = [r \in Request |-> 0]
  /\ given' = {}
  /\ ui' = [u \in User |-> Idle]
  /\ reporting' = FALSE
  /\ flight' = {[m EXCEPT !.live = FALSE] : m \in {x \in flight : x.at # "reply"}}
  /\ UNCHANGED <<server, opened>>

-----------------------------------------------------------------------------
Next ==
  \/ \E r \in Request : CreateCheck(r) \/ CreateInsert(r) \/ Withdraw(r) \/ Age(r)
  \/ \E u \in User, r \in Request : Take(u, r, "approving") \/ Take(u, r, "refusing")
  \/ \E u \in User : Store(u) \/ GiveAnswer(u)
  \/ SendReport
  \/ \E m \in flight :
       Accept(m) \/ RecordAnswer(m) \/ Reply(m) \/ Receive(m) \/ GiveUp(m) \/ Drop(m)
  \/ Restart

Spec == Init /\ [][Next]_vars

\* The report loop goes on, and a network and a server that are there again
\* and again let a report through in the end.
Accepted == \E m \in flight : m.live /\ Accept(m)
Recorded(left) == \E m \in flight : m.live /\ Len(m.answers) = left /\ RecordAnswer(m)
Replied == \E m \in flight : m.live /\ Reply(m)
Arrived == \E m \in flight : Receive(m)
GivenUp == \E m \in flight : ~m.ok /\ GiveUp(m)

FairSpec ==
  /\ Spec
  /\ WF_vars(SendReport) /\ WF_vars(GivenUp)
  /\ SF_vars(Accepted) /\ SF_vars(Replied) /\ SF_vars(Arrived)
  /\ \A left \in 1 .. MaxRequests : SF_vars(Recorded(left))

-----------------------------------------------------------------------------
\* "remotehub records the first answer to a pending request of that connector
\* and ignores others" (docs/adr/0013): once answered or withdrawn, a request
\* stays so, whatever late or repeated reports still bring
\* (connector_requests.rs, answer and withdraw).
DecidedStaysStep ==
  \A r \in Request : status[r] \notin {"none", "pending"} => status'[r] = status[r]

DecidedStays == [][DecidedStaysStep]_vars

\* remotehub says a request is approved only when the customer's access.json
\* got the approval first: approve_request answers after it stored.
ApprovedWasOpened == \A r \in Request : status[r] = "approved" => r \in opened

\* The journal tells the customer once that a request came in, however reports
\* fail or cross; only a restart of the connector, which forgets the list,
\* repeats it (Requests::listed), and what was pushed off the full list comes
\* in again.
ReceivedOnce == \A r \in Request \ pushed : received[r] <= 1

\* The customer is asked once: while the connector runs, nobody takes up a
\* request that has been answered (Requests::waiting), whether its answer is
\* still to be sent, on its way or recorded; unless it was pushed off the list
\* and has come again.
AskedOnceStep ==
  \A u \in User :
    ui[u].at = "idle" /\ ui'[u].at # "idle" => ui'[u].id \notin given \ pushed

AskedOnce == [][AskedOnceStep]_vars

\* "The answer goes back with the reports ... until remotehub no longer lists
\* the request" (docs/adr/0013): while it runs, the connector lets go of an
\* answer only when the request no longer waits at remotehub, or was pushed off
\* the list there.
AnswerKeptStep ==
  restarts' = restarts =>
    \A i \in DOMAIN answers :
      answers[i] \notin Range(answers') => ~Waiting(answers[i].id) \/ answers[i].id \in pushed

AnswerKept == [][AnswerKeptStep]_vars

\* The three together: answered once, kept until it is known, final then
\* (connector_requests.rs, answer; requests.rs, Requests).
AnswersHold == [][DecidedStaysStep /\ AskedOnceStep /\ AnswerKeptStep]_vars

Given(r, k) == HasAnswer(r) /\ restarts = k
Known(r, k) ==
  \/ status[r] # "pending" \/ r \in aged \cup pushed
  \/ restarts # k
  \/ Len(answers) > MaxRequests

\* An answer the customer gave is recorded or the request finds another end,
\* however many reports fail on the way, unless the connector restarts, holds
\* more answers than one report may carry (checked_state refuses those), or the
\* request was pushed off the list.
AnswerArrives ==
  \A r \in Request, k \in 0 .. MaxRestarts : Given(r, k) ~> Known(r, k)
=============================================================================
