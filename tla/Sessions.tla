------------------------------ MODULE Sessions ------------------------------
(***************************************************************************)
(* The sessions of one user (session.rs) while requests, confirmations     *)
(* (api/confirm.rs) and the input of open connections (Activity, used by   *)
(* api/terminal.rs and api/display.rs) work on them at the same time.      *)
(*                                                                         *)
(* A request reads the session's row, marks it as used in a statement of   *)
(* its own, and only then runs its handler: anything can happen between    *)
(* the three.  A connection asks about its session at most once a minute   *)
(* and goes by the last answer in between.                                 *)
(*                                                                         *)
(* One unit of time is half a minute, the life of a one-time code, so the  *)
(* time `now' is also the number of the code an authenticator app shows.   *)
(***************************************************************************)
EXTENDS Integers, FiniteSets

CONSTANTS
    Session,        \* the user's sessions
    Request,        \* requests the server works on at once
    Conn,           \* the user's open connections
    Challenge,      \* challenges for a security key
    Minute,         \* the coarseness of last_seen_at and of Activity's checks
    Idle,           \* REMOTEHUB_SESSION_IDLE_MINUTES
    Lifetime,       \* REMOTEHUB_SESSION_MAX_HOURS
    MaxFailures,    \* MAX_FAILURES
    MaxTime         \* bound: the time at which the model stops

VARIABLES
    now,        \* the database's clock
    row,        \* the table `sessions', by session
    req,        \* each request: where it is and what it read
    conn,       \* each connection's Activity
    lastStep,   \* last_totp_step of the user's app
    offered,    \* webauthn_challenges that are still unused
    asked,      \* challenges made so far
    taken,      \* history: how often each code or challenge was right
    used,       \* history: when each session was last used
    over,       \* history: when each session's row went
    missed      \* history: wrong answers on each session since a right one

vars == <<now, row, req, conn, lastStep, offered, asked, taken, used, over, missed>>

NotYet  == [row |-> "not yet"]
Gone    == [row |-> "gone"]
Resting == [at |-> "rest"]
Closed  == [open |-> FALSE, session |-> "none"]
Never   == -1

Client == {"web", "extension"}
Time == 0 .. MaxTime
Code == 0 .. MaxTime + 1

(* What the constants must be: the code has a minute, and a last failure;   *)
(* a challenge is no code.                                                  *)
ConstantsOK ==
    /\ Minute \in Nat \ {0} /\ MaxFailures \in Nat \ {0} /\ MaxTime \in Nat \ {0}
    /\ Idle \in Nat /\ Lifetime \in Nat
    /\ Code \cap Challenge = {}

TypeOK ==
    /\ now \in Time
    /\ row \in [Session -> {NotYet, Gone}
                  \cup [client : Client, seen : Time, ends : 0 .. MaxTime + Lifetime,
                        failures : 0 .. MaxFailures - 1]]
    /\ req \in [Request -> {Resting}
                  \cup [at : {"touch"}, session : Session, client : Client,
                        background : BOOLEAN]
                  \cup [at : {"handler"}, session : Session, client : Client,
                        locked : BOOLEAN]]
    /\ conn \in [Conn -> {Closed}
                  \cup [session : Session, checked : Time \cup {Never},
                        open : BOOLEAN, sure : BOOLEAN]]
    /\ lastStep \in Code
    /\ offered \subseteq asked /\ asked \subseteq Challenge
    /\ taken \in [Code \cup Challenge -> Nat]
    /\ used \in [Session -> Time] /\ over \in [Session -> Time]
    /\ missed \in [Session -> Nat]

-----------------------------------------------------------------------------
(* What the statements ask of a row.                                        *)

There(s)  == row[s] \notin {NotYet, Gone}
Valid(s)  == There(s) /\ row[s].ends > now
Locked(s) == row[s].seen <= now - Idle

(* by_hash: a browser's session is found locked or not, the extension's     *)
(* only while it is in use.                                                 *)
Found(s) == Valid(s) /\ (row[s].client = "web" \/ ~Locked(s))

Init ==
    /\ now = 1
    /\ row = [s \in Session |-> NotYet]
    /\ req = [h \in Request |-> Resting]
    /\ conn = [c \in Conn |-> Closed]
    /\ lastStep = 0
    /\ offered = {} /\ asked = {}
    /\ taken = [t \in Code \cup Challenge |-> 0]
    /\ used = [s \in Session |-> 0]
    /\ over = [s \in Session |-> 0]
    /\ missed = [s \in Session |-> 0]

(* Time passes.  The history forgets the codes that are too old to fit.     *)
Tick ==
    /\ now < MaxTime
    /\ now' = now + 1
    /\ taken' = [t \in DOMAIN taken |-> IF t \in 0 .. now - 1 THEN 0 ELSE taken[t]]
    /\ UNCHANGED <<row, req, conn, lastStep, offered, asked, used, over, missed>>

(* session::create and session::create_extension.                           *)
Create(s, client) ==
    /\ row[s] = NotYet
    /\ row' = [row EXCEPT ![s] = [client |-> client, seen |-> now,
                                 ends |-> now + Lifetime, failures |-> 0]]
    /\ used' = [used EXCEPT ![s] = now]
    /\ UNCHANGED <<now, req, conn, lastStep, offered, asked, taken, over, missed>>

(* A row is deleted: by signing out, by an administrator, by the purge.     *)
Remove(S) ==
    /\ row' = [s \in Session |-> IF s \in S THEN Gone ELSE row[s]]
    /\ over' = [s \in Session |-> IF s \in S THEN now ELSE over[s]]

(* purge_sessions, every ten minutes.                                       *)
Purge ==
    LET ended == {s \in Session : There(s) /\ ~Found(s)} IN
    /\ ended # {}
    /\ Remove(ended)
    /\ UNCHANGED <<now, req, conn, lastStep, offered, asked, taken, used, missed>>

(* users::end, and every other statement that ends all of a user's sessions.*)
EndAll ==
    /\ \E s \in Session : There(s)
    /\ Remove({s \in Session : There(s)})
    /\ UNCHANGED <<now, req, conn, lastStep, offered, asked, taken, used, missed>>

-----------------------------------------------------------------------------
(* A request: `find' reads the row.  An unlocked session goes on to `touch',*)
(* unless the page sent the request on its own (BACKGROUND).                *)

ToTouch(s, client, background) ==
    [at |-> "touch", session |-> s, client |-> client, background |-> background]
ToHandler(s, client, locked) ==
    [at |-> "handler", session |-> s, client |-> client, locked |-> locked]

(* Fault: requests of the page's own count as use.                          *)
FindTouchesAlways(h, s, background) ==
    /\ req[h] = Resting
    /\ Found(s)
    /\ req' = [req EXCEPT ![h] = IF Locked(s)
                                 THEN ToHandler(s, row[s].client, TRUE)
                                 ELSE ToTouch(s, row[s].client, background)]
    /\ UNCHANGED <<now, row, conn, lastStep, offered, asked, taken, used, over, missed>>

Find(h, s, background) ==
    /\ req[h] = Resting
    /\ Found(s)
    /\ req' = [req EXCEPT ![h] = IF background \/ Locked(s)
                                 THEN ToHandler(s, row[s].client, Locked(s))
                                 ELSE ToTouch(s, row[s].client, background)]
    /\ UNCHANGED <<now, row, conn, lastStep, offered, asked, taken, used, over, missed>>

Old(s) == row[s].seen < now - Minute

(* Fault: touch trusts what find read and does not look at the lock again.  *)
TouchAsRead(h) ==
    LET s == req[h].session IN
    /\ req[h].at = "touch"
    /\ row' = IF There(s) /\ Old(s) THEN [row EXCEPT ![s].seen = now] ELSE row
    /\ used' = IF req[h].background THEN used ELSE [used EXCEPT ![s] = now]
    /\ req' = [req EXCEPT ![h] = ToHandler(s, req[h].client, FALSE)]
    /\ UNCHANGED <<now, conn, lastStep, offered, asked, taken, over, missed>>

(* Fault: being used again forgives the wrong answers.                      *)
TouchForgives(h) ==
    LET s == req[h].session IN
    /\ req[h].at = "touch"
    /\ row' = IF There(s) /\ ~Locked(s) THEN [row EXCEPT ![s].failures = 0] ELSE row
    /\ used' = IF There(s) /\ ~Locked(s) THEN [used EXCEPT ![s] = row[s].seen] ELSE used
    /\ req' = [req EXCEPT ![h] = ToHandler(s, req[h].client, FALSE)]
    /\ UNCHANGED <<now, conn, lastStep, offered, asked, taken, over, missed>>

(* touch: an unlocked session is marked as used, at most once a minute.     *)
Touch(h) ==
    LET s == req[h].session IN
    /\ req[h].at = "touch"
    /\ row' = IF There(s) /\ Old(s) /\ ~Locked(s) THEN [row EXCEPT ![s].seen = now] ELSE row
    /\ used' = IF There(s) /\ ~Locked(s) /\ ~req[h].background
               THEN [used EXCEPT ![s] = now] ELSE used
    /\ req' = [req EXCEPT ![h] = ToHandler(s, req[h].client, FALSE)]
    /\ UNCHANGED <<now, conn, lastStep, offered, asked, taken, over, missed>>

Handling(h) == req[h].at = "handler"

(* Every other handler: a locked session is refused with session_locked;    *)
(* what the others do does not concern the sessions.                        *)
Answer(h) ==
    /\ Handling(h)
    /\ req' = [req EXCEPT ![h] = Resting]
    /\ UNCHANGED <<now, row, conn, lastStep, offered, asked, taken, used, over, missed>>

(* session::sign_out: a locked session signs out as well.                   *)
SignOut(h) ==
    /\ Handling(h)
    /\ LET s == req[h].session IN
         IF There(s) THEN Remove({s}) ELSE UNCHANGED <<row, over>>
    /\ req' = [req EXCEPT ![h] = Resting]
    /\ UNCHANGED <<now, conn, lastStep, offered, asked, taken, used, missed>>

-----------------------------------------------------------------------------
(* Confirming with the second factor (api/confirm.rs), for a browser's      *)
(* session, locked or not.                                                  *)

Confirming(h) == Handling(h) /\ req[h].client = "web"

(* confirm::start makes a challenge for a key.                              *)
Start(h, k) ==
    /\ Confirming(h)
    /\ k \notin asked
    /\ asked' = asked \cup {k} /\ offered' = offered \cup {k}
    /\ req' = [req EXCEPT ![h] = Resting]
    /\ UNCHANGED <<now, row, conn, lastStep, taken, used, over, missed>>

(* The confirmation is written to the row with that token, if it is still   *)
(* there; the answer is `no content' either way.                            *)
Right(s) ==
    /\ row' = IF There(s) THEN [row EXCEPT ![s].seen = now, ![s].failures = 0] ELSE row
    /\ used' = IF There(s) THEN [used EXCEPT ![s] = now] ELSE used
    /\ missed' = [missed EXCEPT ![s] = 0]
    /\ UNCHANGED over

(* Fault: one wrong answer too many.                                        *)
WrongOnceMore(s) ==
    LET failures == row[s].failures + 1 IN
    /\ There(s)
    /\ IF failures > MaxFailures
       THEN Remove({s})
       ELSE row' = [row EXCEPT ![s].failures = failures] /\ UNCHANGED over
    /\ missed' = [missed EXCEPT ![s] = @ + 1]
    /\ UNCHANGED used

(* A wrong answer is counted in the row, and the last one deletes it.       *)
Wrong(s) ==
    LET failures == row[s].failures + 1 IN
    /\ There(s)
    /\ IF failures >= MaxFailures
       THEN Remove({s})
       ELSE row' = [row EXCEPT ![s].failures = failures] /\ UNCHANGED over
    /\ missed' = [missed EXCEPT ![s] = @ + 1]
    /\ UNCHANGED used

(* second_factor::verify, confirm::local_code: the code of the step before, *)
(* of this and of the next step fits, if none as late was taken already.    *)
FitsAgain(code) == code \in now - 1 .. now + 1 /\ lastStep <= code
Fits(code) == code \in now - 1 .. now + 1 /\ lastStep < code

(* The codes around the time; all others are as wrong as the oldest of these.*)
Tried == Code \cap (now - 2 .. now + 1)

ConfirmCode(h, code) ==
    /\ Confirming(h)
    /\ \/ /\ Fits(code)
          /\ Right(req[h].session)
          /\ lastStep' = code
          /\ taken' = [taken EXCEPT ![code] = @ + 1]
       \/ /\ ~Fits(code)
          /\ Wrong(req[h].session)
          /\ UNCHANGED <<lastStep, taken>>
    /\ req' = [req EXCEPT ![h] = Resting]
    /\ UNCHANGED <<now, conn, offered, asked>>

(* verify_key, local_key: the challenge is taken out of the table first,    *)
(* right answer or not.                                                     *)
ConfirmKey(h, k, signed) ==
    /\ Confirming(h)
    /\ k \in asked
    /\ \/ /\ signed /\ k \in offered
          /\ Right(req[h].session)
          /\ taken' = [taken EXCEPT ![k] = @ + 1]
       \/ /\ ~(signed /\ k \in offered)
          /\ Wrong(req[h].session)
          /\ UNCHANGED taken
    /\ offered' = offered \ {k}
    /\ req' = [req EXCEPT ![h] = Resting]
    /\ UNCHANGED <<now, conn, lastStep, asked>>

(* A wrong answer for a session whose row is gone by then finds nothing to  *)
(* count: the request fails and what its transaction wrote is undone.       *)
ConfirmFails(h) ==
    /\ Confirming(h)
    /\ ~There(req[h].session)
    /\ req' = [req EXCEPT ![h] = Resting]
    /\ UNCHANGED <<now, row, conn, lastStep, offered, asked, taken, used, over, missed>>

-----------------------------------------------------------------------------
(* Connections and what is typed into them (Activity).                      *)

(* A handler with an unlocked session opens a connection: Activity::of.     *)
Connect(h, c) ==
    /\ Handling(h) /\ ~req[h].locked /\ req[h].client = "web"
    /\ conn[c] = Closed
    /\ conn' = [conn EXCEPT ![c] = [session |-> req[h].session, checked |-> Never,
                                    open |-> TRUE, sure |-> FALSE]]
    /\ req' = [req EXCEPT ![h] = Resting]
    /\ UNCHANGED <<now, row, lastStep, offered, asked, taken, used, over, missed>>

Disconnect(c) ==
    /\ conn[c] # Closed
    /\ conn' = [conn EXCEPT ![c] = Closed]
    /\ UNCHANGED <<now, row, req, lastStep, offered, asked, taken, used, over, missed>>

(* The last answer still counts.  While the session is locked it counts for *)
(* two seconds, less than the model's unit of time.                         *)
Fresh(c) == conn[c].open /\ conn[c].checked # Never /\ now - conn[c].checked < Minute

(* Input that goes on to the device without a question.                     *)
InputGoesOn(c) ==
    /\ conn[c] # Closed
    /\ Fresh(c)
    /\ used' = IF conn[c].sure THEN [used EXCEPT ![conn[c].session] = now] ELSE used
    /\ UNCHANGED <<now, row, req, conn, lastStep, offered, asked, taken, over, missed>>

(* Fault: the question is asked, and its answer does not count as use.      *)
InputOnlyAsks(c) ==
    LET s == conn[c].session
        open == Valid(s) /\ ~Locked(s) IN
    /\ conn[c] # Closed /\ ~Fresh(c)
    /\ used' = IF open THEN [used EXCEPT ![s] = now] ELSE used
    /\ conn' = [conn EXCEPT ![c].checked = now, ![c].open = open, ![c].sure = TRUE]
    /\ UNCHANGED <<now, row, req, lastStep, offered, asked, taken, over, missed>>

(* Fault: once open, a connection is not asked about again.                 *)
InputAsksOnce(c) ==
    LET s == conn[c].session
        open == (conn[c].sure /\ conn[c].open) \/ (Valid(s) /\ ~Locked(s)) IN
    /\ conn[c] # Closed /\ ~Fresh(c)
    /\ row' = IF Valid(s) /\ ~Locked(s) /\ Old(s) THEN [row EXCEPT ![s].seen = now] ELSE row
    /\ used' = IF Valid(s) /\ ~Locked(s) THEN [used EXCEPT ![s] = now] ELSE used
    /\ conn' = [conn EXCEPT ![c].checked = now, ![c].open = open, ![c].sure = TRUE]
    /\ UNCHANGED <<now, req, lastStep, offered, asked, taken, over, missed>>

(* Input that asks first: an unlocked session is marked as used, and the    *)
(* answer decides whether this input and the next ones go on.               *)
InputAsks(c) ==
    LET s == conn[c].session
        open == Valid(s) /\ ~Locked(s) IN
    /\ conn[c] # Closed /\ ~Fresh(c)
    /\ row' = IF open /\ Old(s) THEN [row EXCEPT ![s].seen = now] ELSE row
    /\ used' = IF open THEN [used EXCEPT ![s] = now] ELSE used
    /\ conn' = [conn EXCEPT ![c].checked = now, ![c].open = open, ![c].sure = TRUE]
    /\ UNCHANGED <<now, req, lastStep, offered, asked, taken, over, missed>>

(* The database does not answer: the answer before it stands.               *)
InputUnanswered(c) ==
    /\ conn[c] # Closed /\ ~Fresh(c)
    /\ conn' = [conn EXCEPT ![c].checked = now, ![c].sure = FALSE]
    /\ UNCHANGED <<now, row, req, lastStep, offered, asked, taken, used, over, missed>>

-----------------------------------------------------------------------------
Next ==
    \/ Tick \/ Purge \/ EndAll
    \/ \E s \in Session, client \in Client : Create(s, client)
    \/ \E h \in Request :
         \/ \E s \in Session, background \in BOOLEAN : Find(h, s, background)
         \/ Touch(h) \/ Answer(h) \/ SignOut(h) \/ ConfirmFails(h)
         \/ \E k \in Challenge : Start(h, k)
         \/ \E code \in Tried : ConfirmCode(h, code)
         \/ \E k \in Challenge, signed \in BOOLEAN : ConfirmKey(h, k, signed)
         \/ \E c \in Conn : Connect(h, c)
    \/ \E c \in Conn : Disconnect(c) \/ InputGoesOn(c) \/ InputAsks(c) \/ InputUnanswered(c)

Spec == Init /\ [][Next]_vars

-----------------------------------------------------------------------------
(* Properties.                                                              *)

(* "A locked one stays locked": a session that is locked, or an extension's *)
(* that is over, opens again only by a confirmation given on that very      *)
(* session, whatever requests and input were under way when it locked.      *)
LockedStaysLockedStep ==
    \A s \in Session :
      (There(s) /\ Locked(s) /\ There(s)' /\ ~Locked(s)')
        => \E h \in Request :
             req[h] # Resting /\ req'[h] = Resting /\ req[h].session = s /\ Confirming(h)

LockedStaysLocked == [][LockedStaysLockedStep]_vars

(* A session in use does not lock: last_seen_at is written at most once a   *)
(* minute and input is checked at most once a minute, so it runs behind by  *)
(* less than two minutes, and a session used up to two minutes less than    *)
(* the idle time ago is open.                                               *)
UsedStaysOpen ==
    \A s \in Session :
        (There(s) /\ now - used[s] <= Idle - 2 * Minute) => ~Locked(s)

(* A session nobody uses locks on time: what the page asks on its own, and  *)
(* input that was held back, do not put it off.                             *)
UnusedLocks ==
    \A s \in Session : (There(s) /\ now - used[s] >= Idle) => Locked(s)

(* When a session is over, input into its connections reaches the device    *)
(* for less than a minute more, if the database answers.                    *)
InputEndsWithSession ==
    \A c \in Conn :
        (conn[c] # Closed /\ Fresh(c) /\ conn[c].sure) =>
            LET s == conn[c].session IN
            /\ row[s] = Gone => now - over[s] < Minute
            /\ There(s) => now - row[s].ends < Minute

(* However many confirmations are under way at once, a session that still   *)
(* lives has had fewer than MAX_FAILURES wrong answers since a right one.   *)
WrongAnswersEndIt ==
    \A s \in Session : There(s) => missed[s] < MaxFailures

(* "Each code confirms once", and each challenge, on all of the user's      *)
(* sessions together.                                                       *)
ConfirmsOnce == \A t \in DOMAIN taken : taken[t] <= 1

(* A session locks when it is unused, on time and not while it is used.     *)
LocksOnTime == UsedStaysOpen /\ UnusedLocks

(* However confirmations interleave, wrong answers are counted and right    *)
(* ones are taken once.                                                     *)
AnswersAreLimited == WrongAnswersEndIt /\ ConfirmsOnce

-----------------------------------------------------------------------------
(* Refuted (README.md tells the steps): a session "locks after this long    *)
(* without a request or input into a connection" (docs/configuration.md),   *)
(* and not before.                                                          *)
LocksOnlyWhenUnused ==
    \A s \in Session : (There(s) /\ now - used[s] < Idle) => ~Locked(s)
=============================================================================
