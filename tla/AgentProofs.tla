---------------------------- MODULE AgentProofs ----------------------------
(***************************************************************************)
(* Theorems about Agent, for any set of scopes, targets and streams and    *)
(* any clock bound: type correctness, ClosedMeansDisconnected and          *)
(* ListedArePermitted.                                                     *)
(***************************************************************************)
EXTENDS Agent, TLAPS

\* The snapshot while_open works with is the Gate's as long as no change
\* waits for it.
SeenIsCurrent ==
  phase \in {"scanning", "asleep"} /\ ~unseen => seen = gate

\* A connection is listed while it carries, and carries or is over after.
ListedWereCarrying ==
  \A c \in listed : stream[c] \in {"carrying", "over"}

\* What while_open has compared and not cancelled, its snapshot let through
\* at the time it looked.
CheckedWerePermitted ==
  phase \in {"scanning", "asleep"} =>
    \A c \in listed \ unchecked :
      Carrying(c) /\ c \notin cancelled => permitted(seen, Goal[c], lookedAt)

\* The sleep ends no later than anything that was open at that time.
SleepEndsInTime ==
  phase = "asleep" =>
    /\ unchecked = {}
    /\ \A s \in Scope : is_open(seen[s], lookedAt) => wakeAt <= seen[s]

\* The inductive invariant.
Inv ==
  /\ TypeOK
  /\ lookedAt <= now
  /\ ClosedMeansDisconnected
  /\ SeenIsCurrent
  /\ ListedWereCarrying
  /\ CheckedWerePermitted
  /\ SleepEndsInTime

\* Sleeping no longer than the next end after the time while_open looked,
\* what was permitted then is permitted until it wakes: the compared
\* connections are the listed ones, and the snapshot is the Gate's.
LEMMA InvImpliesListedArePermitted == Inv => ListedArePermitted
<1> SUFFICES ASSUME Inv, phase = "asleep", ~unseen, now < wakeAt,
                    NEW c \in listed, Carrying(c), c \notin cancelled
             PROVE  permitted(gate, Goal[c], now)
  BY DEF ListedArePermitted
<1>1. seen = gate /\ unchecked = {}
  BY DEF Inv, SeenIsCurrent, SleepEndsInTime
<1>2. PICK s \in Scope : Goal[c] \in Covers[s] /\ is_open(seen[s], lookedAt)
  BY <1>1 DEF Inv, CheckedWerePermitted, permitted
<1>3. wakeAt <= seen[s]
  BY <1>2 DEF Inv, SleepEndsInTime
<1>4. gate[s] > now
  BY <1>1, <1>3, MaxTimeAssumption DEF Inv, TypeOK, End, Never, Time
<1> QED
  BY <1>2, <1>4 DEF permitted, is_open

LEMMA InitInv == Init => Inv
<1> SUFFICES ASSUME Init PROVE Inv
  OBVIOUS
<1>1. TypeOK
  <2>1. 0 \in Time /\ Closed \in End /\ Never \in End
    BY MaxTimeAssumption DEF Time, End, Never, Closed
  <2>2. unseen \in BOOLEAN /\ phase \in Phase /\ control \in {"down", "up"}
    BY DEF Init, Phase
  <2>3. stream \in [Conn -> Stage] /\ until \in [Conn -> End]
    BY <2>1 DEF Init, Stage
  <2> QED
    BY <2>1, <2>2, <2>3 DEF Init, TypeOK, NothingOpen
<1>2. lookedAt <= now /\ ClosedMeansDisconnected /\ ListedWereCarrying
  BY DEF Init, ClosedMeansDisconnected, ListedWereCarrying, Live
<1>3. SeenIsCurrent /\ CheckedWerePermitted /\ SleepEndsInTime
  BY DEF Init, SeenIsCurrent, CheckedWerePermitted, SleepEndsInTime
<1> QED
  BY <1>1, <1>2, <1>3 DEF Inv

\* Every action keeps the types.
LEMMA StepTypeOK == TypeOK /\ [Next]_vars => TypeOK'
<1> SUFFICES ASSUME TypeOK, [Next]_vars PROVE TypeOK'
  OBVIOUS
<1> USE MaxTimeAssumption DEF TypeOK, Time, End, Never, Closed, Phase, Stage
<1>0. NothingOpen \in [Scope -> End]
  BY DEF NothingOpen
<1>1. CASE Tick
  BY <1>1 DEF Tick, superviseVars, streamVars
<1>2. CASE GateChanges
  BY <1>2 DEF GateChanges, streamVars
<1>3. CASE UntilOpen
  BY <1>3 DEF UntilOpen, streamVars
<1>4. CASE Look
  <2>1. unseen' \in BOOLEAN
    BY <1>4 DEF Look
  <2>2. CASE any_open(gate, now)
    BY <1>4, <2>1, <2>2 DEF Look, streamVars
  <2>3. CASE ~any_open(gate, now)
    BY <1>0, <1>4, <2>1, <2>3 DEF Look, RoundEnds, streamVars
  <2> QED
    BY <2>2, <2>3
<1>5. ASSUME NEW c \in Conn, Check(c) PROVE TypeOK'
  BY <1>5 DEF Check, streamVars
<1>6. CASE Sleep
  BY <1>6 DEF Sleep, streamVars
<1>7. CASE Wake
  BY <1>0, <1>7 DEF Wake, RoundEnds, streamVars
<1>8. CASE Connect \/ Disconnect
  BY <1>8 DEF Connect, Disconnect, superviseVars, streamVars
<1>9. ASSUME NEW c \in Conn, Open(c) \/ Start(c) \/ Resolve(c) \/ Fail(c)
                             \/ Register(c) \/ Finish(c) \/ Ended(c)
      PROVE TypeOK'
  BY <1>9 DEF Open, Start, Resolve, Fail, Register, Finish, Ended, superviseVars
<1>10. CASE UNCHANGED vars
  BY <1>10 DEF vars, superviseVars, streamVars
<1> QED
  BY <1>1, <1>2, <1>3, <1>4, <1>5, <1>6, <1>7, <1>8, <1>9, <1>10 DEF Next, Supervise

\* Every action keeps the rest of the invariant.
LEMMA StepInv == Inv /\ [Next]_vars => Inv'
<1> SUFFICES ASSUME Inv, [Next]_vars PROVE Inv'
  OBVIOUS
<1> USE MaxTimeAssumption
    DEF ClosedMeansDisconnected, SeenIsCurrent, ListedWereCarrying, CheckedWerePermitted,
        SleepEndsInTime, Live, Carrying
<1>0. TypeOK /\ TypeOK'
  BY StepTypeOK DEF Inv
<1>1. CASE Tick
  BY <1>0, <1>1 DEF Inv, Tick, superviseVars, streamVars, permitted, TypeOK, Time
<1>2. CASE GateChanges
  BY <1>0, <1>2 DEF Inv, GateChanges, streamVars, permitted
<1>3. CASE UntilOpen
  BY <1>0, <1>3 DEF Inv, UntilOpen, streamVars, permitted
<1>4. CASE Look
  BY <1>0, <1>4 DEF Inv, Look, RoundEnds, streamVars, TypeOK, Time, Stage
<1>5. ASSUME NEW c \in Conn, Check(c) PROVE Inv'
  <2>1. permitted(seen, Goal[c], now) => permitted(seen, Goal[c], lookedAt)
    BY <1>0, <1>5 DEF Inv, permitted, is_open, TypeOK, Time, End, Never
  <2> QED
    BY <1>0, <1>5, <2>1 DEF Inv, Check, streamVars, permitted
<1>6. CASE Sleep
  <2>1. \A s \in Scope : is_open(seen[s], lookedAt) => wakeAt' <= seen[s]
    BY <1>6 DEF Sleep, is_next_end
  <2> QED
    BY <1>0, <1>6, <2>1 DEF Inv, Sleep, streamVars, permitted
<1>7. CASE Wake
  BY <1>0, <1>7 DEF Inv, Wake, RoundEnds, streamVars, TypeOK, Time
<1>8. CASE Connect \/ Disconnect
  BY <1>0, <1>8 DEF Inv, Connect, Disconnect, superviseVars, streamVars, permitted
<1>9. ASSUME NEW c \in Conn, Open(c) \/ Start(c) \/ Resolve(c) \/ Fail(c)
                             \/ Register(c) \/ Finish(c) \/ Ended(c)
      PROVE Inv'
  BY <1>0, <1>9
  DEF Inv, Open, Start, Resolve, Fail, Register, Finish, Ended, superviseVars, permitted, TypeOK, Stage
<1>10. CASE UNCHANGED vars
  BY <1>0, <1>10 DEF Inv, vars, superviseVars, streamVars, permitted
<1> QED
  BY <1>1, <1>2, <1>3, <1>4, <1>5, <1>6, <1>7, <1>8, <1>9, <1>10 DEF Next, Supervise

LEMMA Invariance == Spec => []Inv
<1> QED
  BY InitInv, StepInv, PTL DEF Spec

\* Types hold in every reachable state, for any number of scopes and streams.
THEOREM TypeCorrect == Spec => []TypeOK
<1>1. Inv => TypeOK
  BY DEF Inv
<1> QED
  BY <1>1, Invariance, PTL

\* While supervise waits for something to open, the connector has no control
\* socket, and every stream on its way holds a cancelled token.
THEOREM ClosedDisconnects == Spec => []ClosedMeansDisconnected
<1>1. Inv => ClosedMeansDisconnected
  BY DEF Inv
<1> QED
  BY <1>1, Invariance, PTL

\* Between two rounds of while_open, every connection it listed in the last
\* round and did not end is permitted by the Gate's snapshot.
THEOREM ListedStayPermitted == Spec => []ListedArePermitted
<1> QED
  BY InvImpliesListedArePermitted, Invariance, PTL
=============================================================================
