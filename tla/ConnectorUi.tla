----------------------------- MODULE ConnectorUi -----------------------------
(***************************************************************************)
(* Signing in to the connector's web interface: ui.rs of the connector,    *)
(* users.json (users.rs) and the command line that manages it.             *)
(*                                                                         *)
(* One name.  Sessions, failed attempts and locks live in the memory of    *)
(* the process and go with it; the users' file stays.  A password check    *)
(* takes long and runs beside the other requests, at most Checks at a      *)
(* time: what the attempt found when it came may have changed.             *)
(***************************************************************************)
EXTENDS Naturals, Sequences, FiniteSets

CONSTANTS
    Slot,           \* sign-ins under way at once
    Token,          \* session tokens
    Attempts,       \* ATTEMPTS
    LockedFor, Idle, Longest,
    Checks,         \* CHECKS
    MaxTime,        \* bound: the clock
    MaxWrong,       \* bound: failed sign-ins in a behaviour
    MaxVersion,     \* bound: passwords the user is ever given
    None, Gone

VARIABLES
    now,
    user, given,    \* users.json: the password's version, None without the user
    attempts,       \* [failures, last, until], or None
    sessions,       \* [Token -> [started, seen], None, or Gone]
    slot,           \* sign-ins under way: where, and the password they bring
    wrong,          \* history: when a sign-in failed, since the last success
    used            \* history: [Token -> [since, last]]: when it was last accepted

uiVars == <<now, user, given, attempts, sessions, slot, wrong, used>>

(* What is kept of a name that failed, and of a sign-in under way.          *)
Counts ==
    [failures : 0 .. Attempts, last : 0 .. MaxTime,
     until : {None} \cup (0 .. MaxTime + LockedFor)]
SignIns ==
    [at : {"waiting", "checking", "right", "wrong"}, password : 0 .. MaxVersion]
Open == [started : 0 .. MaxTime, seen : 0 .. MaxTime]
Uses == [since : 0 .. MaxTime, last : 0 .. MaxTime, gap : 0 .. MaxTime]

(* One failure locks at the least, and a session lives for a moment.        *)
ConstantsOK ==
    /\ IsFiniteSet(Slot) /\ {Attempts, Idle, Longest} \subseteq Nat \ {0}
    /\ {LockedFor, Checks, MaxTime, MaxWrong, MaxVersion} \subseteq Nat
    /\ None # Gone /\ Gone \notin Open
    /\ None \notin 0 .. MaxVersion /\ None \notin 0 .. MaxTime + LockedFor
    /\ None \notin Counts /\ None \notin SignIns /\ None \notin Open /\ None \notin Uses

Init ==
    /\ now = 0
    /\ user = None /\ given = 0
    /\ attempts = None
    /\ sessions = [t \in Token |-> None]
    /\ slot = [s \in Slot |-> None]
    /\ wrong = <<>>
    /\ used = [t \in Token |-> None]

-----------------------------------------------------------------------------
(* remotehub-connector user add, reset, delete; one command at a time.      *)

Add ==
    /\ user = None /\ given < MaxVersion
    /\ given' = given + 1 /\ user' = given'
    /\ UNCHANGED <<now, attempts, sessions, slot, wrong, used>>

Reset ==
    /\ user # None /\ given < MaxVersion
    /\ given' = given + 1 /\ user' = given'
    /\ UNCHANGED <<now, attempts, sessions, slot, wrong, used>>

Delete ==
    /\ user # None
    /\ user' = None
    /\ UNCHANGED <<now, given, attempts, sessions, slot, wrong, used>>

-----------------------------------------------------------------------------
(* Signing in.                                                              *)

Locked == attempts # None /\ attempts.until # None /\ now <= attempts.until

(* sign_in, up to the password check; the browser brings a password it was  *)
(* once given, or a wrong one (0).                                          *)
Arrive(s, password) ==
    /\ slot[s] = None
    /\ ~Locked
    /\ slot' = [slot EXCEPT ![s] = [at |-> "waiting", password |-> password]]
    /\ UNCHANGED <<now, user, given, attempts, sessions, wrong, used>>

Checking == {s \in Slot : slot[s] # None /\ slot[s].at = "checking"}

TakeTurn(s) ==
    /\ slot[s] # None /\ slot[s].at = "waiting"
    /\ Cardinality(Checking) < Checks
    /\ slot' = [slot EXCEPT ![s].at = "checking"]
    /\ UNCHANGED <<now, user, given, attempts, sessions, wrong, used>>

(* Users::verify reads the file at some moment of the check.                *)
Verify(s) ==
    /\ s \in Checking
    /\ slot' = [slot EXCEPT ![s].at = IF slot[s].password = user
                                      THEN "right" ELSE "wrong"]
    /\ UNCHANGED <<now, user, given, attempts, sessions, wrong, used>>

(* failed: a name nobody tried for a while is forgotten.                    *)
Kept ==
    /\ attempts # None
    /\ \/ now - attempts.last < LockedFor
       \/ attempts.until # None /\ attempts.until > now

Before == IF Kept THEN attempts ELSE [failures |-> 0, last |-> now, until |-> None]

(* Fault: a lock begins only with one failure more.                         *)
CountedLate ==
    IF Before.failures >= Attempts
    THEN [failures |-> 0, last |-> now, until |-> now + LockedFor]
    ELSE [Before EXCEPT !.failures = @ + 1, !.last = now]

Counted ==
    IF Before.failures + 1 >= Attempts
    THEN [failures |-> 0, last |-> now, until |-> now + LockedFor]
    ELSE [Before EXCEPT !.failures = @ + 1, !.last = now]

Failed(s) ==
    /\ slot[s] # None /\ slot[s].at = "wrong"
    /\ Len(wrong) < MaxWrong
    /\ attempts' = Counted
    /\ wrong' = Append(wrong, now)
    /\ slot' = [slot EXCEPT ![s] = None]
    /\ UNCHANGED <<now, user, given, sessions, used>>

Succeeded(s, t) ==
    /\ slot[s] # None /\ slot[s].at = "right"
    /\ sessions[t] = None
    /\ attempts' = None
    /\ sessions' = [sessions EXCEPT ![t] = [started |-> now, seen |-> now]]
    /\ used' = [used EXCEPT ![t] = [since |-> now, last |-> now, gap |-> 0]]
    /\ wrong' = <<>>
    /\ slot' = [slot EXCEPT ![s] = None]
    /\ UNCHANGED <<now, user, given>>

SignOut(t) ==
    /\ sessions[t] # None
    /\ sessions' = [sessions EXCEPT ![t] = Gone]
    /\ UNCHANGED <<now, user, given, attempts, slot, wrong, used>>

-----------------------------------------------------------------------------
(* Using the page.                                                          *)

Over(x) == now - x.seen >= Idle \/ now - x.started >= Longest

InMap == {t \in Token : sessions[t] \notin {None, Gone}}

(* Fault: the session of the request is marked as used before the others'   *)
(* age is looked at.                                                        *)
FoundFirst(t) ==
    sessions' = [x \in Token |-> IF x \in InMap /\ x = t /\ now - sessions[x].started < Longest
                                 THEN [sessions[x] EXCEPT !.seen = now]
                                 ELSE IF x \in InMap /\ Over(sessions[x]) THEN Gone
                                 ELSE sessions[x]]

(* Ui::user: first every session that is over goes.                         *)
Found(t) ==
    sessions' = [x \in Token |-> IF x \in InMap /\ Over(sessions[x]) THEN Gone
                                 ELSE IF x \in InMap /\ x = t THEN [sessions[x] EXCEPT !.seen = now]
                                 ELSE sessions[x]]

(* Every page and every form asks for the user first, and acts for them or  *)
(* sends the browser to the sign-in page.  What it does is AccessStore's    *)
(* and CustomerRequests'.                                                   *)
Act(t) ==
    /\ sessions[t] # None
    /\ Found(t)
    /\ used' = IF sessions'[t] = Gone THEN used
               ELSE [used EXCEPT ![t].last = now,
                                 ![t].gap = IF now - used[t].last > @ THEN now - used[t].last ELSE @]
    /\ UNCHANGED <<now, user, given, attempts, slot, wrong>>

(* The connector is restarted: its memory is gone, the tokens are worthless. *)
Restart ==
    /\ attempts' = None
    /\ sessions' = [t \in Token |-> IF sessions[t] = None THEN None ELSE Gone]
    /\ slot' = [s \in Slot |-> None]
    /\ wrong' = <<>>
    /\ UNCHANGED <<now, user, given, used>>

Tick ==
    /\ now < MaxTime
    /\ now' = now + 1
    /\ UNCHANGED <<user, given, attempts, sessions, slot, wrong, used>>

Next ==
    \/ Add \/ Reset \/ Delete \/ Restart \/ Tick
    \/ \E s \in Slot : \/ TakeTurn(s) \/ Verify(s) \/ Failed(s)
                       \/ \E password \in {0} \cup (1 .. given) : Arrive(s, password)
                       \/ \E t \in Token : Succeeded(s, t)
    \/ \E t \in Token : SignOut(t) \/ Act(t)

Spec == Init /\ [][Next]_uiVars

-----------------------------------------------------------------------------
TypeOK ==
    /\ now \in 0 .. MaxTime /\ given \in 0 .. MaxVersion
    /\ user \in {None} \cup (1 .. given)
    /\ attempts # None => attempts.failures \in 0 .. Attempts
    /\ Cardinality(Checking) <= Checks

(* For as long as a lock lasts, from whichever moment on, a name fails at   *)
(* most as often as locks it, and as often again as sign-ins were under way *)
(* when it was locked, unless someone signs in with the right password.     *)
UiGuessesAreLimited ==
    \A i \in DOMAIN wrong :
        Cardinality({j \in i .. Len(wrong) : wrong[j] < wrong[i] + LockedFor})
            <= Attempts - 1 + Cardinality(Slot)

(* A session that was unused for the idle time, or that is as old as one    *)
(* gets, acts for nobody any more, even if nobody looked at it meanwhile.   *)
UiSessionsRunOut ==
    \A t \in Token : used[t] # None =>
        used[t].gap < Idle /\ used[t].last - used[t].since < Longest
=============================================================================
