---------------------------- MODULE Connectors ----------------------------
(***************************************************************************)
(* remotehub's registry of site connectors (crates/server/src/connectors.rs*)
(* and api/connectors.rs): a connector's control sockets come and go, a    *)
(* newer one replacing an older; calls ask over the current one for a      *)
(* stream or a check; the connector answers on the control socket or with  *)
(* a WebSocket of its own for the stream, which the registry hands to the  *)
(* call that asked. One connector; another one shares nothing with it but  *)
(* the maps.                                                               *)
(*                                                                         *)
(* A call is Connectors::stream or Connectors::check, named by its random  *)
(* id. The connector's end of it is agent.rs's `stream` or the task of a   *)
(* `check`.                                                                *)
(***************************************************************************)
EXTENDS Naturals, Sequences, FiniteSets

CONSTANTS
  Socket,    \* control sockets, in no order
  Stream,    \* calls of Connectors::stream
  Check,     \* calls of Connectors::check
  Capacity,  \* of a control socket's channel
  None

Call == Stream \cup Check

\* Ids are random, so no two calls have the same.
ConstantsOK ==
  /\ Capacity \in Nat /\ None \notin Socket
  /\ IsFiniteSet(Stream) /\ Stream \cap Check = {}

VARIABLES
  online,   \* Connectors.online: the socket registered last, or None
  socket,   \* how far run_control is with each socket
  queue,    \* each socket's channel of requests
  wire,     \* requests sent over a socket, not yet read by the connector
  back,     \* reports the connector sent over a socket
  asked,    \* Connectors.pending and Connectors.checks
  call,     \* what each call is doing
  via,      \* the channel a call holds a sender of
  reply,    \* the oneshot channel of each call
  far,      \* the connector's end of each call
  on,       \* the control socket the connector's end answers on
  carrying  \* Connectors.carrying

sockets == <<online, socket, queue>>
lines == <<wire, back>>
vars == <<sockets, lines, asked, call, via, reply, far, on, carrying>>

TypeOK ==
  /\ online \in Socket \cup {None}
  /\ socket \in [Socket -> {"none", "up", "stalled", "ended", "unregistered", "gone"}]
  /\ queue \in [Socket -> Seq(Call)] /\ \A s \in Socket : Len(queue[s]) <= Capacity
  /\ wire \in [Socket -> Seq(Call)]
  /\ back \in [Socket -> Seq(Call)]
  /\ asked \in SUBSET Call
  /\ call \in [Call -> {"idle", "sending", "waiting", "leaving", "taking", "carrying"}]
  /\ via \in [Call -> Socket \cup {None}]
  /\ reply \in [Call -> {"empty", "claimed", "ok", "error"}]
  /\ far \in [Call -> {"none", "working", "calling", "carrying"}]
  /\ on \in [Call -> Socket \cup {None}]
  /\ carrying \in 0 .. Cardinality(Stream)

Init ==
  /\ online = None
  /\ socket = [s \in Socket |-> "none"]
  /\ queue = [s \in Socket |-> <<>>]
  /\ wire = [s \in Socket |-> <<>>]
  /\ back = [s \in Socket |-> <<>>]
  /\ asked = {}
  /\ call = [k \in Call |-> "idle"]
  /\ via = [k \in Call |-> None]
  /\ reply = [k \in Call |-> "empty"]
  /\ far = [k \in Call |-> "none"]
  /\ on = [k \in Call |-> None]
  /\ carrying = 0

-----------------------------------------------------------------------------
(* A control socket: run_control.                                          *)

\* A new control socket; one that is gone and forgotten stands for it.
Register(s) ==
  /\ socket[s] \in {"none", "gone"}
  /\ \A k \in Call : s \notin {via[k], on[k]}
  /\ socket' = [socket EXCEPT ![s] = "up"]
  /\ online' = s
  /\ UNCHANGED <<queue, lines, asked, call, via, reply, far, on, carrying>>

\* The next request of the channel goes out; if the connector takes nothing
\* more, run_control hangs in socket.send, which has no timeout.
Forward(s) ==
  /\ socket[s] = "up"
  /\ queue[s] # <<>>
  /\ queue' = [queue EXCEPT ![s] = Tail(@)]
  /\ wire' = [wire EXCEPT ![s] = Append(@, Head(queue[s]))]
  /\ socket' \in {socket, [socket EXCEPT ![s] = "stalled"]}
  /\ UNCHANGED <<online, back, asked, call, via, reply, far, on, carrying>>

\* So does a ping.
Ping(s) ==
  /\ socket[s] = "up"
  /\ socket' = [socket EXCEPT ![s] = "stalled"]
  /\ UNCHANGED <<online, queue, lines, asked, call, via, reply, far, on, carrying>>

\* The connector takes it after all.
Taken(s) ==
  /\ socket[s] = "stalled"
  /\ socket' = [socket EXCEPT ![s] = "up"]
  /\ UNCHANGED <<online, queue, lines, asked, call, via, reply, far, on, carrying>>

\* All senders of the channel are gone: a newer socket took this one's place
\* and no call holds its sender any more.
Replaced(s) == socket[s] = "up" /\ online # s /\ queue[s] = <<>> /\ \A k \in Call : via[k] # s

\* The socket broke or was closed by either side, requests and reports on it
\* are lost; or it was replaced.
End(s) ==
  /\ socket[s] \in {"up", "stalled"}
  /\ socket' = [socket EXCEPT ![s] = "ended"]
  /\ wire' = [wire EXCEPT ![s] = <<>>]
  /\ back' = [back EXCEPT ![s] = <<>>]
  /\ UNCHANGED <<online, queue, asked, call, via, reply, far, on, carrying>>

\* Fault: a socket that ends takes the connector offline, whoever registered.
UnregisterAny(s) ==
  /\ socket[s] = "ended"
  /\ socket' = [socket EXCEPT ![s] = "unregistered"]
  /\ online' = None
  /\ UNCHANGED <<queue, lines, asked, call, via, reply, far, on, carrying>>

\* Registration is dropped: only this socket's own entry goes.
Unregister(s) ==
  /\ socket[s] = "ended"
  /\ socket' = [socket EXCEPT ![s] = "unregistered"]
  /\ online' = IF online = s THEN None ELSE online
  /\ UNCHANGED <<queue, lines, asked, call, via, reply, far, on, carrying>>

\* run_control returns after it noted the time, and with it the channel goes.
Gone(s) ==
  /\ socket[s] = "unregistered"
  /\ socket' = [socket EXCEPT ![s] = "gone"]
  /\ queue' = [queue EXCEPT ![s] = <<>>]
  /\ UNCHANGED <<online, lines, asked, call, via, reply, far, on, carrying>>

-----------------------------------------------------------------------------
(* A call: Connectors::stream and Connectors::check.                       *)

\* No trace is left of an id, which then stands for a new one.
Unused(k) ==
  /\ call[k] = "idle" /\ far[k] = "none" /\ k \notin asked
  /\ \A s \in Socket : \A q \in {queue[s], wire[s], back[s]} : \A i \in DOMAIN q : q[i] # k

\* The call takes the current socket's sender and notes its id;
\* with the connector offline it returns at once.
Ask(k) ==
  /\ Unused(k)
  /\ online # None
  /\ call' = [call EXCEPT ![k] = "sending"]
  /\ asked' = asked \cup {k}
  /\ via' = [via EXCEPT ![k] = online]
  /\ reply' = [reply EXCEPT ![k] = "empty"]
  /\ UNCHANGED <<sockets, lines, far, on, carrying>>

\* Fault: waits for room in a channel that is gone.
SendOnly(k) ==
  /\ call[k] = "sending"
  /\ socket[via[k]] # "gone"
  /\ Len(queue[via[k]]) < Capacity
  /\ queue' = [queue EXCEPT ![via[k]] = Append(@, k)]
  /\ call' = [call EXCEPT ![k] = "waiting"]
  /\ UNCHANGED <<online, socket, lines, asked, via, reply, far, on, carrying>>

\* Fault: the channel has no bound.
SendUnbounded(k) ==
  /\ call[k] = "sending"
  /\ queue' = [queue EXCEPT ![via[k]] = Append(@, k)]
  /\ call' = [call EXCEPT ![k] = "waiting"]
  /\ UNCHANGED <<online, socket, lines, asked, via, reply, far, on, carrying>>

\* The request waits for room in the channel, without a timeout; a channel
\* that is gone takes none.
Send(k) ==
  /\ call[k] = "sending"
  /\ \/ /\ socket[via[k]] # "gone"
        /\ Len(queue[via[k]]) < Capacity
        /\ queue' = [queue EXCEPT ![via[k]] = Append(@, k)]
        /\ call' = [call EXCEPT ![k] = "waiting"]
     \/ /\ socket[via[k]] = "gone"
        /\ call' = [call EXCEPT ![k] = "leaving"]
        /\ UNCHANGED queue
  /\ UNCHANGED <<online, socket, lines, asked, via, reply, far, on, carrying>>

\* The answer is there: a stream to carry, or an error or a check's result.
Answered(k) ==
  /\ call[k] = "waiting"
  /\ reply[k] \in {"ok", "error"}
  /\ call' = [call EXCEPT ![k] = IF k \in Stream /\ reply[k] = "ok" THEN "taking" ELSE "leaving"]
  /\ UNCHANGED <<sockets, lines, asked, via, reply, far, on, carrying>>

\* The time is up. The receiver goes, with a stream that came in this moment.
TimeOut(k) ==
  /\ call[k] = "waiting"
  /\ call' = [call EXCEPT ![k] = "leaving"]
  /\ UNCHANGED <<sockets, lines, asked, via, reply, far, on, carrying>>

\* Fault: the request is only taken back when it was answered.
LeaveAnswered(k) ==
  /\ call[k] = "leaving"
  /\ call' = [call EXCEPT ![k] = "idle"]
  /\ asked' = IF reply[k] = "empty" THEN asked ELSE asked \ {k}
  /\ via' = [via EXCEPT ![k] = None]
  /\ UNCHANGED <<sockets, lines, reply, far, on, carrying>>

\* Fault: the call keeps the sender.
LeaveHolds(k) ==
  /\ call[k] = "leaving"
  /\ call' = [call EXCEPT ![k] = "idle"]
  /\ asked' = asked \ {k}
  /\ UNCHANGED <<sockets, lines, via, reply, far, on, carrying>>

\* The call takes its id back and returns without a stream.
Leave(k) ==
  /\ call[k] = "leaving"
  /\ call' = [call EXCEPT ![k] = "idle"]
  /\ asked' = asked \ {k}
  /\ via' = [via EXCEPT ![k] = None]
  /\ UNCHANGED <<sockets, lines, reply, far, on, carrying>>

\* Fault: a stream is counted before the call knows whether it has one.
CountEarly(k) ==
  /\ call[k] \in {"waiting", "taking"}
  /\ call' = [call EXCEPT ![k] = "carrying"]
  /\ asked' = asked \ {k}
  /\ via' = [via EXCEPT ![k] = None]
  /\ carrying' = carrying + 1
  /\ UNCHANGED <<sockets, lines, reply, far, on>>

\* Forward::open counts the stream and carries the engine's connection.
Count(k) ==
  /\ call[k] = "taking"
  /\ call' = [call EXCEPT ![k] = "carrying"]
  /\ asked' = asked \ {k}
  /\ via' = [via EXCEPT ![k] = None]
  /\ carrying' = carrying + 1
  /\ UNCHANGED <<sockets, lines, reply, far, on>>

\* Both directions have finished; Carrying is dropped.
Carried(k) ==
  /\ call[k] = "carrying"
  /\ call' = [call EXCEPT ![k] = "idle"]
  /\ carrying' = carrying - 1
  /\ UNCHANGED <<sockets, lines, asked, via, reply, far, on>>

\* The browser that asked for a check went away, and its handler with it:
\* nobody takes the id back.
Cancel(k) ==
  /\ k \in Check
  /\ call[k] \in {"sending", "waiting"}
  /\ call' = [call EXCEPT ![k] = "idle"]
  /\ via' = [via EXCEPT ![k] = None]
  /\ UNCHANGED <<sockets, lines, asked, reply, far, on, carrying>>

-----------------------------------------------------------------------------
(* The connector's end.                                                    *)

\* control spawns a task for the next request.
Begin(s) ==
  /\ socket[s] = "up"
  /\ wire[s] # <<>>
  /\ far' = [far EXCEPT ![Head(wire[s])] = "working"]
  /\ on' = [on EXCEPT ![Head(wire[s])] = s]
  /\ wire' = [wire EXCEPT ![s] = Tail(@)]
  /\ UNCHANGED <<sockets, back, asked, call, via, reply, carrying>>

\* The task reports on the control socket: a refusal of the stream, or the
\* check's result. If that socket is no longer there the report is lost.
Say(k) ==
  /\ far[k] = "working"
  /\ far' = [far EXCEPT ![k] = "none"]
  /\ on' = [on EXCEPT ![k] = None]
  /\ back' = IF socket[on[k]] \in {"up", "stalled"} THEN [back EXCEPT ![on[k]] = Append(@, k)] ELSE back
  /\ UNCHANGED <<sockets, wire, asked, call, via, reply, carrying>>

\* The device answers, and the connector opens the stream's socket, or ends
\* without a word because access closed or remotehub is out of reach.
CallBack(k) ==
  /\ k \in Stream
  /\ far[k] = "working"
  /\ far' = [far EXCEPT ![k] = "calling"]
  /\ on' = [on EXCEPT ![k] = None]
  /\ UNCHANGED <<sockets, lines, asked, call, via, reply, carrying>>

GiveUp(k) ==
  /\ far[k] \in {"working", "calling"} /\ reply[k] # "claimed"
  /\ far' = [far EXCEPT ![k] = "none"]
  /\ on' = [on EXCEPT ![k] = None]
  /\ UNCHANGED <<sockets, lines, asked, call, via, reply, carrying>>

-----------------------------------------------------------------------------
(* The answers arrive.                                                     *)

\* run_control reads a report: fail and checked answer a call that still waits.
Report(s) ==
  /\ socket[s] = "up"
  /\ back[s] # <<>>
  /\ LET k == Head(back[s])
     IN  /\ asked' = asked \ {k}
         /\ reply' = [reply EXCEPT ![k] =
                        IF k \notin asked THEN @ ELSE IF k \in Check THEN "ok" ELSE "error"]
  /\ back' = [back EXCEPT ![s] = Tail(@)]
  /\ UNCHANGED <<sockets, wire, call, via, far, on, carrying>>

\* The handler of the stream's socket claims the request, if it still waits.
Claim(k) ==
  /\ far[k] = "calling" /\ reply[k] # "claimed"
  /\ \/ /\ k \in asked
        /\ asked' = asked \ {k}
        /\ reply' = [reply EXCEPT ![k] = "claimed"]
        /\ UNCHANGED far
     \/ /\ k \notin asked
        /\ far' = [far EXCEPT ![k] = "none"]
        /\ UNCHANGED <<asked, reply>>
  /\ UNCHANGED <<sockets, lines, call, via, on, carrying>>

\* The socket is upgraded and handed over, or the upgrade fails and the
\* reply's sender is dropped. A receiver that is gone drops the socket.
Upgrade(k) ==
  /\ reply[k] = "claimed"
  /\ \/ /\ reply' = [reply EXCEPT ![k] = "ok"]
        /\ far' = [far EXCEPT ![k] = "carrying"]
     \/ /\ reply' = [reply EXCEPT ![k] = "error"]
        /\ far' = [far EXCEPT ![k] = "none"]
  /\ UNCHANGED <<sockets, lines, asked, call, via, on, carrying>>

\* The connector's end of a carried stream ends: on its own, or because
\* remotehub's end was dropped.
FarEnds(k) ==
  /\ far[k] = "carrying"
  /\ far' = [far EXCEPT ![k] = "none"]
  /\ UNCHANGED <<sockets, lines, asked, call, via, reply, on, carrying>>

-----------------------------------------------------------------------------
Next ==
  \/ \E s \in Socket :
       \/ Register(s) \/ Forward(s) \/ Ping(s) \/ Taken(s) \/ End(s) \/ Unregister(s) \/ Gone(s)
       \/ Begin(s) \/ Report(s)
  \/ \E k \in Call :
       \/ Ask(k) \/ Send(k) \/ Answered(k) \/ TimeOut(k) \/ Leave(k) \/ Cancel(k)
       \/ Count(k) \/ Carried(k)
       \/ Say(k) \/ CallBack(k) \/ GiveUp(k) \/ Claim(k) \/ Upgrade(k) \/ FarEnds(k)

Spec == Init /\ [][Next]_vars

\* What run_control and a call that waits do of themselves.
GoesOn(s) == Forward(s) \/ (Replaced(s) /\ End(s)) \/ Unregister(s) \/ Gone(s)
Returns(k) == Answered(k) \/ TimeOut(k) \/ Leave(k) \/ Count(k)

\* remotehub's tasks go on, as far as a control socket takes what it is given:
\* nothing says that a stalled one goes on or breaks. Whoever waits for room in a channel gets it in turn, so strong
\* fairness for Send.
Fairness ==
  /\ \A s \in Socket : WF_vars(GoesOn(s))
  /\ \A k \in Call : SF_vars(Send(k)) /\ WF_vars(Returns(k))
  /\ \A k \in Stream : WF_vars(Upgrade(k))

FairSpec == Spec /\ Fairness

-----------------------------------------------------------------------------
\* A connector goes offline only when the control socket it registered last
\* has ended: the end of an older one leaves the newer one's entry alone
\* (Registration::drop compares generations).
OnlyTheLastGoesOffline ==
  [][online # None /\ online' = None => socket[online] = "ended"]_vars

\* When a call for a stream has returned, its request is gone (stream removes
\* it in the end): a connector that answers later is turned away by claim.
NothingLeft ==
  \A k \in Stream : k \in asked => call[k] \in {"sending", "waiting", "leaving"}

\* The number of streams the connectors page shows is the number of engine
\* connections that were given a stream and still run, however answers,
\* timeouts and ends cross (Forward::open, Carrying).
CountsWhatItCarries ==
  carrying = Cardinality({k \in Stream : call[k] = "carrying" /\ reply[k] = "ok"})

\* A call that was sent returns: with a stream, an error or after its timeout,
\* also when its control socket is replaced, stalls or breaks at any point. Only
\* a call that waits for room in the channel waits as long as the socket is
\* stalled (Connectors::stream and check send without a timeout).
Pending(k) == call[k] \in {"sending", "waiting", "leaving", "taking"}
Returned(k) == call[k] \in {"idle", "carrying"}
Stalled(k) == call[k] = "sending" /\ socket[via[k]] = "stalled"
CallReturns == \A k \in Call : Pending(k) ~> Returned(k) \/ Stalled(k)

\* "A newer one of the same connector replaces it" (Registration): an older
\* control socket ends once the calls that still hold its sender are through,
\* unless it is stalled.
ReplacedEnds ==
  \A s \in Socket :
    socket[s] = "up" /\ online # s ~> socket[s] \in {"gone", "stalled"} \/ online = s
=============================================================================
