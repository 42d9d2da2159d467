-------------------------- MODULE ConnectorsProofs --------------------------
(***************************************************************************)
(* Theorems about the registry of connectors, for any number of control    *)
(* sockets, of calls under way and of places in a socket's channel.        *)
(***************************************************************************)
EXTENDS Connectors, FiniteSetTheorems, TLAPS

\* A call that waits for room holds a channel, and a task of the connector a
\* control socket.
Hold ==
  \A k \in Call :
    /\ call[k] = "sending" => via[k] \in Socket
    /\ far[k] = "working" => on[k] \in Socket

\* Nobody answered a request that is still there.
AskedIsUnanswered == \A k \in asked : reply[k] = "empty"

\* Only a call for a stream that has one goes on to carry it.
TakenIsGiven ==
  \A k \in Call : call[k] \in {"taking", "carrying"} => k \in Stream /\ reply[k] = "ok"

CarriedNow == {k \in Stream : call[k] = "carrying"}

\* The inductive invariant.
Inv ==
  /\ TypeOK
  /\ Hold
  /\ AskedIsUnanswered
  /\ TakenIsGiven
  /\ NothingLeft
  /\ carrying = Cardinality(CarriedNow)

LEMMA CarriedSize ==
  ASSUME ConstantsOK
  PROVE  /\ IsFiniteSet(CarriedNow)
         /\ Cardinality(CarriedNow) \in 0 .. Cardinality(Stream)
<1>1. CarriedNow \subseteq Stream /\ IsFiniteSet(Stream)
  BY DEF CarriedNow, ConstantsOK
<1>2. IsFiniteSet(CarriedNow) /\ Cardinality(CarriedNow) <= Cardinality(Stream)
  BY <1>1, FS_Subset
<1>3. Cardinality(CarriedNow) \in Nat /\ Cardinality(Stream) \in Nat
  BY <1>1, <1>2, FS_CardinalityType
<1> QED
  BY <1>2, <1>3

LEMMA InitInv ==
  ASSUME ConstantsOK, Init
  PROVE  Inv
<1>1. <<>> \in Seq(Call) /\ Len(<<>>) = 0
  OBVIOUS
<1>2. CarriedNow = {}
  BY DEF CarriedNow, Init, Call
<1>3. carrying = Cardinality(CarriedNow)
  BY <1>2, FS_EmptySet DEF Init
<1>4. carrying \in 0 .. Cardinality(Stream)
  BY <1>3, CarriedSize
<1>5. /\ queue \in [Socket -> Seq(Call)] /\ \A s \in Socket : Len(queue[s]) <= Capacity
      /\ wire \in [Socket -> Seq(Call)] /\ back \in [Socket -> Seq(Call)]
  BY <1>1 DEF Init, ConstantsOK
<1>6. TypeOK
  BY <1>4, <1>5 DEF Init, TypeOK
<1> QED
  BY <1>3, <1>6 DEF Init, Inv, Hold, AskedIsUnanswered, TakenIsGiven, NothingLeft

\* Channels and wires hold calls.
LEMMA QueueStep ==
  ASSUME NEW q \in Seq(Call), q # <<>>
  PROVE  Head(q) \in Call /\ Tail(q) \in Seq(Call) /\ Len(Tail(q)) = Len(q) - 1
  OBVIOUS

LEMMA AppendStep ==
  ASSUME NEW q \in Seq(Call), NEW k \in Call
  PROVE  Append(q, k) \in Seq(Call) /\ Len(Append(q, k)) = Len(q) + 1
  OBVIOUS

-----------------------------------------------------------------------------
(* What each conjunct is disturbed by.                                     *)

\* Everything but the channels, the wires and the count.
Plain ==
  /\ online \in Socket \cup {None}
  /\ socket \in [Socket -> {"none", "up", "stalled", "ended", "unregistered", "gone"}]
  /\ asked \in SUBSET Call
  /\ call \in [Call -> {"idle", "sending", "waiting", "leaving", "taking", "carrying"}]
  /\ via \in [Call -> Socket \cup {None}]
  /\ reply \in [Call -> {"empty", "claimed", "ok", "error"}]
  /\ far \in [Call -> {"none", "working", "calling", "carrying"}]
  /\ on \in [Call -> Socket \cup {None}]

\* The channels and the wires.
Queues ==
  /\ queue \in [Socket -> Seq(Call)] /\ \A s \in Socket : Len(queue[s]) <= Capacity
  /\ wire \in [Socket -> Seq(Call)]
  /\ back \in [Socket -> Seq(Call)]

LEMMA SocketPlain ==
  ASSUME Plain, NEW s \in Socket,
         Register(s) \/ Forward(s) \/ Ping(s) \/ Taken(s) \/ End(s) \/ Unregister(s) \/ Gone(s)
  PROVE  Plain'
<1>1. UNCHANGED <<asked, call, via, reply, far, on>>
  BY DEF Register, Forward, Ping, Taken, End, Unregister, Gone
<1>2. online' \in Socket \cup {None}
  BY DEF Plain, Register, Forward, Ping, Taken, End, Unregister, Gone
<1>3. socket' \in [Socket -> {"none", "up", "stalled", "ended", "unregistered", "gone"}]
  BY DEF Plain, Register, Forward, Ping, Taken, End, Unregister, Gone
<1> QED
  BY <1>1, <1>2, <1>3 DEF Plain

LEMMA CallPlain ==
  ASSUME Plain, NEW k \in Call,
         \/ Ask(k) \/ Send(k) \/ Answered(k) \/ TimeOut(k) \/ Leave(k) \/ Cancel(k)
         \/ Count(k) \/ Carried(k)
  PROVE  Plain'
<1> USE DEF Plain, sockets
<1>1. UNCHANGED <<online, socket, far, on>>
  BY DEF Ask, Send, Answered, TimeOut, Leave, Cancel, Count, Carried
<1>2. asked' \in SUBSET Call
  BY DEF Ask, Send, Answered, TimeOut, Leave, Cancel, Count, Carried
<1>3. call' \in [Call -> {"idle", "sending", "waiting", "leaving", "taking", "carrying"}]
  BY DEF Ask, Send, Answered, TimeOut, Leave, Cancel, Count, Carried
<1>4. via' \in [Call -> Socket \cup {None}]
  BY DEF Ask, Send, Answered, TimeOut, Leave, Cancel, Count, Carried
<1>5. reply' \in [Call -> {"empty", "claimed", "ok", "error"}]
  BY DEF Ask, Send, Answered, TimeOut, Leave, Cancel, Count, Carried
<1> QED
  BY <1>1, <1>2, <1>3, <1>4, <1>5

LEMMA FarPlain ==
  ASSUME Plain, NEW k \in Call,
         Say(k) \/ CallBack(k) \/ GiveUp(k) \/ Claim(k) \/ Upgrade(k) \/ FarEnds(k)
  PROVE  Plain'
<1> USE DEF Plain, sockets
<1>1. UNCHANGED <<online, socket, call, via>>
  BY DEF Say, CallBack, GiveUp, Claim, Upgrade, FarEnds
<1>2. asked' \in SUBSET Call
  BY DEF Say, CallBack, GiveUp, Claim, Upgrade, FarEnds
<1>3. reply' \in [Call -> {"empty", "claimed", "ok", "error"}]
  BY DEF Say, CallBack, GiveUp, Claim, Upgrade, FarEnds
<1>4. far' \in [Call -> {"none", "working", "calling", "carrying"}]
  BY DEF Say, CallBack, GiveUp, Claim, Upgrade, FarEnds
<1>5. on' \in [Call -> Socket \cup {None}]
  BY DEF Say, CallBack, GiveUp, Claim, Upgrade, FarEnds
<1> QED
  BY <1>1, <1>2, <1>3, <1>4, <1>5

LEMMA WirePlain ==
  ASSUME Plain, Queues, NEW s \in Socket, Begin(s) \/ Report(s)
  PROVE  Plain'
<1> USE DEF Plain, sockets
<1>1. CASE Begin(s)
  <2> DEFINE k == Head(wire[s])
  <2>1. k \in Call
    BY <1>1, QueueStep DEF Begin, Queues
  <2>2. /\ far' = [far EXCEPT ![k] = "working"] /\ on' = [on EXCEPT ![k] = s]
        /\ UNCHANGED <<online, socket, asked, call, via, reply>>
    BY <1>1 DEF Begin
  <2> HIDE DEF k
  <2> QED
    BY <2>1, <2>2
<1>2. CASE Report(s)
  <2> DEFINE k == Head(back[s])
  <2>1. k \in Call
    BY <1>2, QueueStep DEF Report, Queues
  <2>2. /\ asked' = asked \ {k}
        /\ reply' = [reply EXCEPT ![k] =
                       IF k \notin asked THEN @ ELSE IF k \in Check THEN "ok" ELSE "error"]
        /\ UNCHANGED <<online, socket, call, via, far, on>>
    BY <1>2 DEF Report
  <2> HIDE DEF k
  <2> QED
    BY <2>1, <2>2
<1> QED
  BY <1>1, <1>2

LEMMA QueuesStep ==
  ASSUME ConstantsOK, Plain, Queues, Hold, Next
  PROVE  Queues'
<1> USE DEF Queues, sockets, lines
<1>0. \A q \in Seq(Call) : Len(q) \in Nat
  OBVIOUS
<1>1. ASSUME NEW s \in Socket, Forward(s)
      PROVE  Queues'
  <2>1. queue[s] \in Seq(Call) /\ queue[s] # <<>> /\ wire[s] \in Seq(Call)
    BY <1>1 DEF Forward
  <2> DEFINE t == Tail(queue[s])
             w == Append(wire[s], Head(queue[s]))
  <2>2. t \in Seq(Call) /\ Len(t) = Len(queue[s]) - 1 /\ Head(queue[s]) \in Call
    BY <2>1, QueueStep
  <2>3. w \in Seq(Call)
    BY <2>1, <2>2, AppendStep
  <2>4. Len(t) <= Capacity
    BY <1>0, <2>1, <2>2 DEF ConstantsOK
  <2>5. queue' = [queue EXCEPT ![s] = t] /\ wire' = [wire EXCEPT ![s] = w] /\ back' = back
    BY <1>1 DEF Forward
  <2> HIDE DEF t, w
  <2> QED
    BY <2>2, <2>3, <2>4, <2>5
<1>2. ASSUME NEW s \in Socket, End(s) \/ Gone(s)
      PROVE  Queues'
  <2> DEFINE e == <<>>
  <2>1. e \in Seq(Call) /\ Len(e) = 0
    OBVIOUS
  <2>2. Len(e) <= Capacity
    BY <2>1 DEF ConstantsOK
  <2>3. /\ queue' \in {queue, [queue EXCEPT ![s] = e]}
        /\ wire' \in {wire, [wire EXCEPT ![s] = e]}
        /\ back' \in {back, [back EXCEPT ![s] = e]}
    BY <1>2 DEF End, Gone
  <2> HIDE DEF e
  <2> QED
    BY <2>1, <2>2, <2>3, Zenon
<1>3. ASSUME NEW k \in Call, Send(k)
      PROVE  Queues'
  <2>1. via[k] \in Socket
    BY <1>3 DEF Send, Hold
  <2>2. CASE queue' = queue
    BY <1>3, <2>2 DEF Send
  <2>3. CASE /\ Len(queue[via[k]]) < Capacity
             /\ queue' = [queue EXCEPT ![via[k]] = Append(@, k)]
    <3> DEFINE a == Append(queue[via[k]], k)
    <3>1. a \in Seq(Call) /\ Len(a) = Len(queue[via[k]]) + 1
      BY <2>1, AppendStep
    <3>2. Len(a) <= Capacity
      BY <1>0, <2>1, <2>3, <3>1 DEF ConstantsOK
    <3>3. queue' = [queue EXCEPT ![via[k]] = a] /\ UNCHANGED <<wire, back>>
      BY <1>3, <2>3 DEF Send
    <3> HIDE DEF a
    <3> QED
      BY <2>1, <3>1, <3>2, <3>3
  <2> QED
    BY <1>3, <2>2, <2>3 DEF Send
<1>4. ASSUME NEW s \in Socket, Begin(s)
      PROVE  Queues'
  <2> DEFINE t == Tail(wire[s])
  <2>1. t \in Seq(Call)
    BY <1>4, QueueStep DEF Begin
  <2>2. wire' = [wire EXCEPT ![s] = t] /\ UNCHANGED <<queue, back>>
    BY <1>4 DEF Begin
  <2> HIDE DEF t
  <2> QED
    BY <2>1, <2>2
<1>5. ASSUME NEW s \in Socket, Report(s)
      PROVE  Queues'
  <2> DEFINE t == Tail(back[s])
  <2>1. t \in Seq(Call)
    BY <1>5, QueueStep DEF Report
  <2>2. back' = [back EXCEPT ![s] = t] /\ UNCHANGED <<queue, wire>>
    BY <1>5 DEF Report
  <2> HIDE DEF t
  <2> QED
    BY <2>1, <2>2
<1>6. ASSUME NEW k \in Call, Say(k)
      PROVE  Queues'
  <2>1. on[k] \in Socket
    BY <1>6 DEF Say, Hold
  <2> DEFINE a == Append(back[on[k]], k)
  <2>2. a \in Seq(Call)
    BY <2>1, AppendStep
  <2>3. back' \in {back, [back EXCEPT ![on[k]] = a]} /\ UNCHANGED <<queue, wire>>
    BY <1>6 DEF Say
  <2> HIDE DEF a
  <2> QED
    BY <2>1, <2>2, <2>3, Zenon
<1>7. CASE \/ \E s \in Socket : Register(s) \/ Ping(s) \/ Taken(s) \/ Unregister(s)
           \/ \E k \in Call :
                \/ Ask(k) \/ Answered(k) \/ TimeOut(k) \/ Leave(k) \/ Cancel(k)
                \/ Count(k) \/ Carried(k)
                \/ CallBack(k) \/ GiveUp(k) \/ Claim(k) \/ Upgrade(k) \/ FarEnds(k)
  <2>1. UNCHANGED <<queue, wire, back>>
    BY <1>7 DEF Register, Ping, Taken, Unregister, Ask, Answered, TimeOut, Leave, Cancel,
                Count, Carried, CallBack, GiveUp, Claim, Upgrade, FarEnds
  <2> QED
    BY <2>1
<1> QED
  BY <1>1, <1>2, <1>3, <1>4, <1>5, <1>6, <1>7 DEF Next

LEMMA HoldStep ==
  ASSUME ConstantsOK, Plain, Queues, Hold, Next
  PROVE  Hold'
<1> USE DEF Plain, Hold, sockets
<1>1. ASSUME NEW k \in Call, Ask(k)
      PROVE  Hold'
  BY <1>1 DEF Ask
<1>2. ASSUME NEW k \in Call,
             Send(k) \/ Answered(k) \/ TimeOut(k) \/ Leave(k) \/ Cancel(k) \/ Count(k) \/ Carried(k)
      PROVE  Hold'
  <2>1. /\ UNCHANGED <<far, on>>
        /\ \A j \in Call : j # k => call'[j] = call[j] /\ via'[j] = via[j]
        /\ call'[k] # "sending"
    BY <1>2 DEF Send, Answered, TimeOut, Leave, Cancel, Count, Carried
  <2> QED
    BY <2>1
<1>3. ASSUME NEW k \in Call,
             Say(k) \/ CallBack(k) \/ GiveUp(k) \/ Claim(k) \/ Upgrade(k) \/ FarEnds(k)
      PROVE  Hold'
  <2>1. /\ UNCHANGED <<call, via>>
        /\ \A j \in Call : j # k => far'[j] = far[j] /\ on'[j] = on[j]
        /\ far'[k] = "working" => far[k] = "working" /\ on'[k] = on[k]
    BY <1>3 DEF Say, CallBack, GiveUp, Claim, Upgrade, FarEnds
  <2> QED
    BY <2>1
<1>4. ASSUME NEW s \in Socket, Begin(s)
      PROVE  Hold'
  <2> DEFINE k == Head(wire[s])
  <2>1. k \in Call
    BY <1>4, QueueStep DEF Begin, Queues
  <2>2. /\ far' = [far EXCEPT ![k] = "working"] /\ on' = [on EXCEPT ![k] = s]
        /\ UNCHANGED <<call, via>>
    BY <1>4 DEF Begin
  <2> HIDE DEF k
  <2> QED
    BY <2>1, <2>2
<1>5. ASSUME NEW s \in Socket,
             \/ Register(s) \/ Forward(s) \/ Ping(s) \/ Taken(s) \/ End(s)
             \/ Unregister(s) \/ Gone(s) \/ Report(s)
      PROVE  Hold'
  BY <1>5 DEF Register, Forward, Ping, Taken, End, Unregister, Gone, Report
<1> QED
  BY <1>1, <1>2, <1>3, <1>4, <1>5 DEF Next

\* What a report does: it answers a call that still waits.
LEMMA ReportAnswers ==
  ASSUME Plain, Queues, NEW s \in Socket, Report(s)
  PROVE  \E k \in Call :
           /\ asked' = asked \ {k} /\ call' = call
           /\ \A j \in Call : j # k \/ j \notin asked => reply'[j] = reply[j]
<1> DEFINE k == Head(back[s])
<1>1. k \in Call
  BY QueueStep DEF Report, Queues
<1>2. /\ asked' = asked \ {k} /\ call' = call
      /\ reply' = [reply EXCEPT ![k] =
                     IF k \notin asked THEN @ ELSE IF k \in Check THEN "ok" ELSE "error"]
  BY DEF Report
<1> HIDE DEF k
<1>3. \A j \in Call : j # k \/ j \notin asked => reply'[j] = reply[j]
  BY <1>1, <1>2 DEF Plain
<1> QED
  BY <1>1, <1>2, <1>3

LEMMA AnswersStep ==
  ASSUME ConstantsOK, Plain, Queues, AskedIsUnanswered, TakenIsGiven, NothingLeft, Next
  PROVE  AskedIsUnanswered' /\ TakenIsGiven' /\ NothingLeft'
<1> USE DEF Plain, sockets, AskedIsUnanswered, TakenIsGiven, NothingLeft
<1>0. Stream \subseteq Call
  BY DEF Call
<1>1. ASSUME NEW s \in Socket,
             \/ Register(s) \/ Forward(s) \/ Ping(s) \/ Taken(s) \/ End(s)
             \/ Unregister(s) \/ Gone(s) \/ Begin(s)
      PROVE  AskedIsUnanswered' /\ TakenIsGiven' /\ NothingLeft'
  BY <1>1 DEF Register, Forward, Ping, Taken, End, Unregister, Gone, Begin
<1>2. ASSUME NEW s \in Socket, Report(s)
      PROVE  AskedIsUnanswered' /\ TakenIsGiven' /\ NothingLeft'
  <2>1. PICK k \in Call :
          /\ asked' = asked \ {k} /\ call' = call
          /\ \A j \in Call : j # k \/ j \notin asked => reply'[j] = reply[j]
    BY <1>2, ReportAnswers
  <2> QED
    BY <1>0, <2>1
<1>3. ASSUME NEW k \in Call, Ask(k)
      PROVE  AskedIsUnanswered' /\ TakenIsGiven' /\ NothingLeft'
  BY <1>3 DEF Ask, Unused
<1>4. ASSUME NEW k \in Call, Send(k) \/ TimeOut(k)
      PROVE  AskedIsUnanswered' /\ TakenIsGiven' /\ NothingLeft'
  <2>1. /\ UNCHANGED <<asked, reply>> /\ call'[k] \in {"waiting", "leaving"}
        /\ \A j \in Call : j # k => call'[j] = call[j]
    BY <1>4 DEF Send, TimeOut
  <2> QED
    BY <1>0, <2>1
<1>5. ASSUME NEW k \in Call, Answered(k)
      PROVE  AskedIsUnanswered' /\ TakenIsGiven' /\ NothingLeft'
  <2>1. /\ UNCHANGED <<asked, reply>> /\ k \notin asked
        /\ \A j \in Call : j # k => call'[j] = call[j]
        /\ call'[k] = "leaving" \/ (call'[k] = "taking" /\ k \in Stream /\ reply[k] = "ok")
    BY <1>5 DEF Answered
  <2> QED
    BY <1>0, <2>1
<1>6. ASSUME NEW k \in Call, Leave(k) \/ Count(k) \/ Carried(k)
      PROVE  AskedIsUnanswered' /\ TakenIsGiven' /\ NothingLeft'
  <2>1. /\ UNCHANGED reply
        /\ asked' = asked \ {k} \/ (asked' = asked /\ call[k] = "carrying")
        /\ \A j \in Call : j # k => call'[j] = call[j]
        /\ call'[k] = "idle" \/ (call'[k] = "carrying" /\ call[k] = "taking")
    BY <1>6 DEF Leave, Count, Carried
  <2> QED
    BY <1>0, <2>1
<1>7. ASSUME NEW k \in Call, Cancel(k)
      PROVE  AskedIsUnanswered' /\ TakenIsGiven' /\ NothingLeft'
  <2>1. /\ UNCHANGED <<asked, reply>> /\ k \notin Stream /\ call'[k] = "idle"
        /\ \A j \in Call : j # k => call'[j] = call[j]
    BY <1>7 DEF Cancel, ConstantsOK
  <2> QED
    BY <1>0, <2>1
<1>8. ASSUME NEW k \in Call, Say(k) \/ CallBack(k) \/ GiveUp(k) \/ FarEnds(k)
      PROVE  AskedIsUnanswered' /\ TakenIsGiven' /\ NothingLeft'
  BY <1>8 DEF Say, CallBack, GiveUp, FarEnds
<1>9. ASSUME NEW k \in Call, Claim(k) \/ Upgrade(k)
      PROVE  AskedIsUnanswered' /\ TakenIsGiven' /\ NothingLeft'
  <2>1. /\ UNCHANGED call /\ \A j \in Call : j # k => reply'[j] = reply[j]
        /\ \/ asked' = asked \ {k} /\ k \in asked
           \/ asked' = asked /\ reply' = reply
           \/ asked' = asked /\ reply[k] = "claimed"
    BY <1>9 DEF Claim, Upgrade
  <2> QED
    BY <1>0, <2>1
<1> QED
  BY <1>1, <1>2, <1>3, <1>4, <1>5, <1>6, <1>7, <1>8, <1>9 DEF Next

\* Forward::open counts a stream when it begins to carry it, and its end
\* takes it off again.
LEMMA CountStep ==
  ASSUME ConstantsOK, Plain, Queues, TakenIsGiven, Next, carrying = Cardinality(CarriedNow)
  PROVE  carrying' = Cardinality(CarriedNow)'
<1> USE DEF Plain, sockets
<1>0. Stream \subseteq Call /\ IsFiniteSet(CarriedNow) /\ Cardinality(CarriedNow) \in Nat
  BY CarriedSize, FS_CardinalityType DEF Call
<1>1. ASSUME NEW k \in Call, Count(k)
      PROVE  carrying' = Cardinality(CarriedNow)'
  <2>1. k \in Stream /\ k \notin CarriedNow
    BY <1>1 DEF Count, TakenIsGiven, CarriedNow
  <2>2. CarriedNow' = CarriedNow \cup {k}
    BY <1>0, <1>1, <2>1 DEF Count, CarriedNow
  <2>3. Cardinality(CarriedNow \cup {k}) = Cardinality(CarriedNow) + 1
    BY <1>0, <2>1, FS_AddElement, Zenon
  <2> QED
    BY <1>1, <2>2, <2>3 DEF Count
<1>2. ASSUME NEW k \in Call, Carried(k)
      PROVE  carrying' = Cardinality(CarriedNow)'
  <2>1. k \in CarriedNow
    BY <1>2 DEF Carried, TakenIsGiven, CarriedNow
  <2>2. CarriedNow' = CarriedNow \ {k}
    BY <1>0, <1>2, <2>1 DEF Carried, CarriedNow
  <2>3. Cardinality(CarriedNow \ {k}) = Cardinality(CarriedNow) - 1
    BY <1>0, <2>1, FS_RemoveElement, Zenon
  <2> QED
    BY <1>2, <2>2, <2>3 DEF Carried
<1>3. ASSUME carrying' = carrying, CarriedNow' = CarriedNow
      PROVE  carrying' = Cardinality(CarriedNow)'
  BY <1>3
<1>4. ASSUME NEW k \in Call, Ask(k) \/ Send(k) \/ Answered(k) \/ TimeOut(k) \/ Leave(k) \/ Cancel(k)
      PROVE  carrying' = Cardinality(CarriedNow)'
  <2>1. /\ carrying' = carrying
        /\ \A j \in Call : call'[j] = "carrying" <=> call[j] = "carrying"
    BY <1>4 DEF Ask, Unused, Send, Answered, TimeOut, Leave, Cancel
  <2>2. CarriedNow' = CarriedNow
    BY <1>0, <2>1 DEF CarriedNow
  <2> QED
    BY <1>3, <2>1, <2>2
<1>5. CASE \/ \E s \in Socket :
                \/ Register(s) \/ Forward(s) \/ Ping(s) \/ Taken(s) \/ End(s)
                \/ Unregister(s) \/ Gone(s) \/ Begin(s) \/ Report(s)
           \/ \E k \in Call :
                Say(k) \/ CallBack(k) \/ GiveUp(k) \/ Claim(k) \/ Upgrade(k) \/ FarEnds(k)
  <2>1. UNCHANGED <<call, carrying>>
    BY <1>5, Zenon DEF Register, Forward, Ping, Taken, End, Unregister, Gone, Begin, Report, Say,
                CallBack, GiveUp, Claim, Upgrade, FarEnds
  <2> QED
    BY <1>3, <2>1 DEF CarriedNow
<1> QED
  BY <1>1, <1>2, <1>4, <1>5 DEF Next

LEMMA InvStep ==
  ASSUME ConstantsOK, Inv, [Next]_vars
  PROVE  Inv'
<1>1. Plain /\ Queues
  BY DEF Inv, TypeOK, Plain, Queues
<1>2. CASE Next
  <2>1. Plain'
    BY <1>1, <1>2, SocketPlain, CallPlain, FarPlain, WirePlain DEF Next
  <2>2. Queues'
    BY <1>1, <1>2, QueuesStep DEF Inv
  <2>3. Hold'
    BY <1>1, <1>2, HoldStep DEF Inv
  <2>4. AskedIsUnanswered' /\ TakenIsGiven' /\ NothingLeft'
    BY <1>1, <1>2, AnswersStep DEF Inv
  <2>5. carrying' = Cardinality(CarriedNow)'
    BY <1>1, <1>2, CountStep DEF Inv
  <2>6. carrying' \in 0 .. Cardinality(Stream)
    <3>1. (Cardinality(CarriedNow) \in 0 .. Cardinality(Stream))'
      BY CarriedSize, PTL
    <3> QED
      BY <2>5, <3>1
  <2> QED
    BY <2>1, <2>2, <2>3, <2>4, <2>5, <2>6 DEF Inv, TypeOK, Plain, Queues
<1>3. CASE UNCHANGED vars
  BY <1>3 DEF vars, sockets, lines, Inv, TypeOK, Hold, AskedIsUnanswered, TakenIsGiven,
              NothingLeft, CarriedNow
<1> QED
  BY <1>2, <1>3

LEMMA Invariant ==
  ASSUME ConstantsOK
  PROVE  Spec => []Inv
<1>1. Init => Inv
  BY InitInv
<1>2. Inv /\ [Next]_vars => Inv'
  BY InvStep
<1> QED
  BY <1>1, <1>2, PTL DEF Spec

-----------------------------------------------------------------------------
(* What follows of it.                                                     *)

\* However answers, timeouts and ends cross, a call for a stream that has
\* returned left no request behind, the number of streams the page shows is
\* the number that is carried, and no channel holds more than it may.
THEOREM StreamsAreCounted ==
  ASSUME ConstantsOK
  PROVE  Spec => [](TypeOK /\ NothingLeft /\ CountsWhatItCarries)
<1>1. Inv => TypeOK /\ NothingLeft /\ CountsWhatItCarries
  <2> SUFFICES ASSUME Inv PROVE CountsWhatItCarries
    BY DEF Inv
  <2>1. CarriedNow = {k \in Stream : call[k] = "carrying" /\ reply[k] = "ok"}
    BY DEF CarriedNow, Inv, TakenIsGiven, Call
  <2> QED
    BY <2>1 DEF Inv, CountsWhatItCarries
<1> QED
  BY <1>1, Invariant, PTL

\* Registration::drop compares generations: a connector goes offline only
\* when the control socket it registered last has ended.
THEOREM LastSocketDecides ==
  ASSUME ConstantsOK
  PROVE  Spec => OnlyTheLastGoesOffline
<1>1. ASSUME [Next]_vars, online # None, online' = None
      PROVE  socket[online] = "ended"
  <2>1. ASSUME NEW s \in Socket, Register(s)
        PROVE  FALSE
    BY <1>1, <2>1 DEF Register, ConstantsOK
  <2>2. ASSUME NEW s \in Socket, Unregister(s)
        PROVE  socket[online] = "ended"
    BY <1>1, <2>2 DEF Unregister
  <2>3. CASE \/ UNCHANGED vars
             \/ \E s \in Socket :
                  \/ Forward(s) \/ Ping(s) \/ Taken(s) \/ End(s) \/ Gone(s)
                  \/ Begin(s) \/ Report(s)
             \/ \E k \in Call :
                  \/ Ask(k) \/ Send(k) \/ Answered(k) \/ TimeOut(k) \/ Leave(k) \/ Cancel(k)
                  \/ Count(k) \/ Carried(k)
                  \/ Say(k) \/ CallBack(k) \/ GiveUp(k) \/ Claim(k) \/ Upgrade(k) \/ FarEnds(k)
    BY <1>1, <2>3, Zenon DEF vars, sockets, Forward, Ping, Taken, End, Gone, Begin, Report, Ask,
                      Send, Answered, TimeOut, Leave, Cancel, Count, Carried, Say,
                      CallBack, GiveUp, Claim, Upgrade, FarEnds
  <2> QED
    BY <1>1, <2>1, <2>2, <2>3 DEF Next
<1>2. [Next]_vars => (online # None /\ online' = None => socket[online] = "ended")
  BY <1>1
<1> QED
  BY <1>2, PTL DEF Spec, OnlyTheLastGoesOffline
=============================================================================
