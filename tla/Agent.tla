------------------------------- MODULE Agent -------------------------------
(***************************************************************************)
(* The running connector (crates/connector/src/agent.rs): it holds a       *)
(* control socket to remotehub while the customer keeps anything open,     *)
(* carries one connection per stream remotehub asks for, and ends the      *)
(* connections the customer's access no longer lets through.               *)
(*                                                                         *)
(* What the customer opened is the snapshot in the Gate's watch channel.   *)
(* Here that snapshot changes by itself (a change in the web interface, on *)
(* the command line or by expiry); module AccessStore models how the files *)
(* and the Gate produce it.                                                *)
(*                                                                         *)
(* An access is the moment it ends: Closed, a point in time, or Never.     *)
(***************************************************************************)
EXTENDS Naturals, FiniteSets

CONSTANTS
  Scope,      \* the network, the devices, the groups, the approved requests
  Target,     \* what remotehub asks a stream to (host:port)
  Covers,     \* the targets each scope opens
  Conn,       \* stream ids
  Goal,       \* the target each stream id is asked for
  MaxTime     \* bound on the clock

ASSUME MaxTimeAssumption == MaxTime \in Nat
ASSUME CoversAssumption == Covers \in [Scope -> SUBSET Target]
ASSUME GoalAssumption == Goal \in [Conn -> Target]

VARIABLES
  now,        \* the wall clock
  gate,       \* Gate.state: the access of every scope
  unseen,     \* supervise's watch receiver has a change it has not looked at
  phase,      \* where supervise is
  seen,       \* the snapshot while_open works with
  lookedAt,   \* its `now`
  listed,     \* the connections it listed in this round
  unchecked,  \* those of them it has not compared with the snapshot yet
  wakeAt,     \* when its sleep ends
  control,    \* the control socket
  stream,     \* where each stream's task is
  until,      \* a resolving stream: the end its snapshot gives its target
  cancelled   \* the streams whose token is cancelled

superviseVars == <<unseen, phase, seen, lookedAt, listed, unchecked, wakeAt>>
streamVars == <<stream, until>>
vars == <<now, gate, superviseVars, control, streamVars, cancelled>>

Time == 0 .. MaxTime
Closed == 0
Never == MaxTime + 1
End == 0 .. Never

Phase == {"until_open", "looking", "scanning", "asleep"}
Stage == {"none", "spawned", "resolving", "connecting", "carrying", "over"}

TypeOK ==
  /\ now \in Time
  /\ gate \in [Scope -> End]
  /\ unseen \in BOOLEAN
  /\ phase \in Phase
  /\ seen \in [Scope -> End]
  /\ lookedAt \in Time
  /\ listed \in SUBSET Conn
  /\ unchecked \in SUBSET Conn
  /\ wakeAt \in End
  /\ control \in {"down", "up"}
  /\ stream \in [Conn -> Stage]
  /\ until \in [Conn -> End]
  /\ cancelled \in SUBSET Conn

-----------------------------------------------------------------------------
(* Reading a snapshot.                                                     *)

\* Access::is_open: an access is open while its end lies ahead.
is_open(end, at) == end > at

\* agent::permitted: some open scope covers the target.
permitted(snapshot, target, at) ==
  \E s \in Scope : target \in Covers[s] /\ is_open(snapshot[s], at)

\* Snapshot::any_open: the network, a device of the list or a request is
\* open; a group without devices opens nothing.
any_open(snapshot, at) ==
  \E s \in Scope : Covers[s] # {} /\ is_open(snapshot[s], at)

\* agent::open_until: e is the latest end among the scopes that cover the
\* target, Closed if there is none.
is_open_until(e, snapshot, target) ==
  LET ends == {snapshot[s] : s \in {x \in Scope : target \in Covers[x]}} \cup {Closed}
  IN  e \in ends /\ \A f \in ends : f <= e

\* Snapshot::next_end: e is the first end among everything open at `at`,
\* whether it covers a target or not; Never if nothing open ends by itself.
is_next_end(e, snapshot, at) ==
  LET ends == {snapshot[s] : s \in {x \in Scope : is_open(snapshot[x], at)}} \cup {Never}
  IN  e \in ends /\ \A f \in ends : e <= f

NothingOpen == [s \in Scope |-> Closed]

Live(c) == stream[c] \notin {"none", "over"}
Carrying(c) == stream[c] = "carrying"

-----------------------------------------------------------------------------
Init ==
  /\ now = 0
  /\ gate \in [Scope -> End]
  /\ unseen = FALSE
  /\ phase = "until_open"
  /\ seen = NothingOpen
  /\ lookedAt = 0
  /\ listed = {}
  /\ unchecked = {}
  /\ wakeAt = Never
  /\ control = "down"
  /\ stream = [c \in Conn |-> "none"]
  /\ until = [c \in Conn |-> Closed]
  /\ cancelled = {}

Tick ==
  /\ now < MaxTime
  /\ now' = now + 1
  /\ UNCHANGED <<gate, superviseVars, control, streamVars, cancelled>>

\* The Gate takes over a snapshot from the files (AccessStore's Publish),
\* whatever it says: several scopes may have changed, or none.
GateChanges ==
  /\ gate' \in [Scope -> End]
  /\ unseen' = TRUE
  /\ UNCHANGED <<now, phase, seen, lookedAt, listed, unchecked, wakeAt, control,
                 streamVars, cancelled>>

-----------------------------------------------------------------------------
(* agent::supervise.                                                       *)

\* until_open returns; `connected` and `while_open` start.
UntilOpen ==
  /\ phase = "until_open"
  /\ any_open(gate, now)
  /\ phase' = "looking"
  /\ UNCHANGED <<now, gate, unseen, seen, lookedAt, listed, unchecked, wakeAt, control,
                 streamVars, cancelled>>

\* The locals of a round of while_open go out of scope.
RoundEnds ==
  /\ seen' = NothingOpen
  /\ lookedAt' = 0
  /\ listed' = {}
  /\ wakeAt' = Never

\* Fault: closing cancels only the connections that carry already.
LookForgetsConnecting ==
  /\ phase = "looking"
  /\ unseen' = FALSE
  /\ \/ /\ any_open(gate, now)
        /\ phase' = "scanning"
        /\ seen' = gate
        /\ lookedAt' = now
        /\ listed' = {c \in Conn : Carrying(c)}
        /\ unchecked' = listed'
        /\ UNCHANGED <<wakeAt, control, cancelled>>
     \/ /\ ~any_open(gate, now)
        /\ phase' = "until_open"
        /\ RoundEnds
        /\ control' = "down"
        /\ UNCHANGED unchecked
        /\ cancelled' = {c \in Conn : Carrying(c)} \cup cancelled
  /\ UNCHANGED <<now, gate, streamVars>>

\* while_open takes the snapshot and the time, and lists the connections. If
\* nothing is open it returns: `connected` is dropped with its control
\* socket, and the guard cancels the token whose children the streams hold.
Look ==
  /\ phase = "looking"
  /\ unseen' = FALSE
  /\ \/ /\ any_open(gate, now)
        /\ phase' = "scanning"
        /\ seen' = gate
        /\ lookedAt' = now
        /\ listed' = {c \in Conn : Carrying(c)}
        /\ unchecked' = listed'
        /\ UNCHANGED <<wakeAt, control, cancelled>>
     \/ /\ ~any_open(gate, now)
        /\ phase' = "until_open"
        /\ RoundEnds
        /\ control' = "down"
        /\ UNCHANGED unchecked
        /\ cancelled' = {c \in Conn : Live(c)} \cup cancelled
  /\ UNCHANGED <<now, gate, streamVars>>

\* while_open compares one listed connection with its snapshot, at the
\* current time.
Check(c) ==
  /\ phase = "scanning"
  /\ c \in unchecked
  /\ unchecked' = unchecked \ {c}
  /\ cancelled' = IF permitted(seen, Goal[c], now) THEN cancelled ELSE cancelled \cup {c}
  /\ UNCHANGED <<now, gate, unseen, phase, seen, lookedAt, listed, wakeAt, control, streamVars>>

\* Fault: the sleep is rounded up by one.
SleepOneLonger ==
  /\ phase = "scanning"
  /\ unchecked = {}
  /\ phase' = "asleep"
  /\ \E e \in End : is_next_end(e, seen, lookedAt) /\ wakeAt' = e + 1
  /\ UNCHANGED <<now, gate, unseen, seen, lookedAt, listed, unchecked, control, streamVars, cancelled>>

\* Fault: the next end is taken from the time the scan ended.
SleepFromNow ==
  /\ phase = "scanning"
  /\ unchecked = {}
  /\ phase' = "asleep"
  /\ \E e \in End : is_next_end(e, seen, now) /\ wakeAt' = e
  /\ UNCHANGED <<now, gate, unseen, seen, lookedAt, listed, unchecked, control, streamVars, cancelled>>

\* The scan is done: while_open sleeps until a change or the next end, which
\* it takes from the time it looked, not from the time the scan ended.
Sleep ==
  /\ phase = "scanning"
  /\ unchecked = {}
  /\ phase' = "asleep"
  /\ \E e \in End : is_next_end(e, seen, lookedAt) /\ wakeAt' = e
  /\ UNCHANGED <<now, gate, unseen, seen, lookedAt, listed, unchecked, control, streamVars, cancelled>>

\* Fault: only a change wakes while_open.
WakeOnChangeOnly ==
  /\ phase = "asleep"
  /\ unseen
  /\ phase' = "looking"
  /\ RoundEnds
  /\ UNCHANGED <<now, gate, unseen, unchecked, control, streamVars, cancelled>>

Wake ==
  /\ phase = "asleep"
  /\ unseen \/ wakeAt <= now
  /\ phase' = "looking"
  /\ RoundEnds
  /\ UNCHANGED <<now, gate, unseen, unchecked, control, streamVars, cancelled>>

\* agent::connected: the control socket opens, and reopens after a loss,
\* while supervise is past until_open.
Connect ==
  /\ phase # "until_open"
  /\ control = "down"
  /\ control' = "up"
  /\ UNCHANGED <<now, gate, superviseVars, streamVars, cancelled>>

Disconnect ==
  /\ control = "up"
  /\ control' = "down"
  /\ UNCHANGED <<now, gate, superviseVars, streamVars, cancelled>>

-----------------------------------------------------------------------------
(* agent::stream, one task per `open` of remotehub.                        *)

\* agent::control: an `open` spawns the stream with a child token.
Open(c) ==
  /\ control = "up"
  /\ stream[c] = "none"
  /\ stream' = [stream EXCEPT ![c] = "spawned"]
  /\ UNCHANGED <<now, gate, superviseVars, control, until, cancelled>>

\* The task starts: it takes the Gate's snapshot, once.
Start(c) ==
  /\ stream[c] = "spawned"
  /\ stream' = [stream EXCEPT ![c] = "resolving"]
  /\ \E e \in End :
       is_open_until(e, gate, Goal[c]) /\ until' = [until EXCEPT ![c] = e]
  /\ UNCHANGED <<now, gate, superviseVars, control, cancelled>>

\* agent::resolve_target after the name lookup: refused, with a report to
\* remotehub, unless the snapshot lets the target through now.
Resolve(c) ==
  /\ stream[c] = "resolving"
  /\ stream' = [stream EXCEPT ![c] = IF is_open(until[c], now) THEN "connecting" ELSE "over"]
  /\ until' = [until EXCEPT ![c] = Closed]
  /\ UNCHANGED <<now, gate, superviseVars, control, cancelled>>

\* The device does not answer, the name does not resolve or is not allowed,
\* or remotehub does not take the stream.
Fail(c) ==
  /\ stream[c] \in {"resolving", "connecting"}
  /\ stream' = [stream EXCEPT ![c] = "over"]
  /\ until' = [until EXCEPT ![c] = Closed]
  /\ UNCHANGED <<now, gate, superviseVars, control, cancelled>>

\* Device and stream socket are connected: the connection enters the list
\* and carries bytes.
Register(c) ==
  /\ stream[c] = "connecting"
  /\ stream' = [stream EXCEPT ![c] = "carrying"]
  /\ UNCHANGED <<now, gate, superviseVars, control, until, cancelled>>

\* Both sides finished.
Finish(c) ==
  /\ stream[c] = "carrying"
  /\ stream' = [stream EXCEPT ![c] = "over"]
  /\ UNCHANGED <<now, gate, superviseVars, control, until, cancelled>>

\* The stream's token is cancelled.
Ended(c) ==
  /\ stream[c] = "carrying"
  /\ c \in cancelled
  /\ stream' = [stream EXCEPT ![c] = "over"]
  /\ UNCHANGED <<now, gate, superviseVars, control, until, cancelled>>

-----------------------------------------------------------------------------
Supervise == UntilOpen \/ Look \/ (\E c \in Conn : Check(c)) \/ Sleep \/ Wake

Next ==
  \/ Tick
  \/ GateChanges
  \/ Supervise
  \/ Connect
  \/ Disconnect
  \/ \E c \in Conn :
       \/ Open(c)
       \/ Start(c)
       \/ Resolve(c)
       \/ Fail(c)
       \/ Register(c)
       \/ Finish(c)
       \/ Ended(c)

Spec == Init /\ [][Next]_vars

\* tokio polls a task that can go on: supervise's task, and a stream whose
\* token is cancelled. Neither the device, nor remotehub, nor the customer
\* owes anything.
Fairness ==
  /\ WF_vars(Supervise)
  /\ \A c \in Conn : WF_vars(Ended(c))

FairSpec == Spec /\ Fairness

-----------------------------------------------------------------------------
\* "Closed means no connection to remotehub" (docs/adr/0011): while supervise
\* waits for something to open there is no control socket, and every stream
\* that is still somewhere on its way holds a cancelled token, the ones
\* included that had not connected when access closed.
ClosedMeansDisconnected ==
  phase = "until_open" =>
    control = "down" /\ \A c \in Conn : Live(c) => c \in cancelled

\* A connection while_open listed may go on only as far as the access lets it
\* through: asleep, with no change to look at and the sleep not over, every
\* listed connection that still runs is permitted by the Gate's snapshot now.
\* The end the sleep aims at must not miss one that passed during the scan.
ListedArePermitted ==
  phase = "asleep" /\ ~unseen /\ now < wakeAt =>
    \A c \in listed : Carrying(c) /\ c \notin cancelled => permitted(gate, Goal[c], now)

\* Closing everything, by hand or by time, ends every connection and the
\* control socket, unless something opens again first.
ClosingAllEndsAll ==
  ~any_open(gate, now) ~>
    \/ any_open(gate, now)
    \/ control = "down" /\ \A c \in Conn : ~Carrying(c)

\* A connection that was running and permitted ends after its target closes
\* (or its time runs out), unless the target opens again: while_open "ends
\* the connections the access no longer lets through" (agent.rs:228).
ClosingEndsPermitted ==
  \A c \in Conn :
    [](Carrying(c) /\ permitted(gate, Goal[c], now) =>
        [](~permitted(gate, Goal[c], now) =>
            <>(~Carrying(c) \/ permitted(gate, Goal[c], now))))

\* Closing ends what it must, be it one target or everything (agent.rs,
\* while_open).
ClosingEnds == ClosingAllEndsAll /\ ClosingEndsPermitted

\* "The connector decides again for every stream and ends running connections
\* to devices that close" (docs/architecture.md): no connection runs on for
\* ever to a target that is not open.
ClosingEndsRunning ==
  \A c \in Conn :
    (Carrying(c) /\ ~permitted(gate, Goal[c], now)) ~>
      (~Carrying(c) \/ permitted(gate, Goal[c], now))
=============================================================================
