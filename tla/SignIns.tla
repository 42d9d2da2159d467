------------------------------- MODULE SignIns -------------------------------
(***************************************************************************)
(* One user's account: signing in (api/session.rs, api/accounts.rs) and    *)
(* pairing the browser extension (api/extension.rs), administrators who    *)
(* block and unblock it (api/users.rs), and the directory, whose changes   *)
(* reach the running sessions (refresh.rs).                                *)
(*                                                                         *)
(* A sign-in asks the directory or Kratos first and starts its session     *)
(* later; a refresh asks first and applies the answer later; blocking is   *)
(* several statements.  Only the sign-in of directory and local accounts   *)
(* looks at users.blocked_at under the lock of the user's row, which its   *)
(* upsert takes and which the block's update waits for: those two exclude  *)
(* each other, so checking and starting the session is one step here.  The *)
(* sign-in of a break-glass account and the trade of an extension's code   *)
(* for a session look first and start the session later.                   *)
(***************************************************************************)
EXTENDS Naturals

CONSTANTS
    Session,        \* sessions the user can start
    Login,          \* sign-ins under way at once
    Admin,          \* administrators at work
    Asker,          \* requests that ask the directory before they connect
    MaxChanges      \* bound: changes of the account where it lives

ASSUME SignInsAssumption ==
    /\ MaxChanges \in Nat
    /\ "due" \notin Asker

VARIABLES
    kind,       \* users.kind
    home,       \* the account in the directory or in Kratos
    changes,    \* how often others changed it there
    blocked,    \* users.blocked_at IS NOT NULL
    shut,       \* history: a block was carried out and not lifted since
    sess,       \* the table `sessions'; history `late': begun after a block by
                \* whoever had looked before it
    login,      \* sign-ins and extensions' codes: what they know
    admin,      \* administrators' requests: the statement they are at
    ask         \* refreshes: the answer they hold

blocks == <<blocked, shut>>
vars == <<kind, home, changes, blocks, sess, login, admin, ask>>

Kinds   == {"directory", "local", "break_glass"}
NotYet  == [row |-> "not yet"]
Gone    == [row |-> "gone"]
Resting == [at |-> "rest"]
Groups  == 0 .. MaxChanges      \* the group lists the user has had, by number
Askers  == Asker \cup {"due"}   \* "due": refresh::run

Client  == {"web", "extension"}
Row     == [groups : Groups, due : BOOLEAN, client : Client, late : BOOLEAN]
Knowing == [at : {"known", "unblocked"}, groups : Groups, client : Client]

Answer == [says : {"groups"}, groups : Groups] \cup [says : {"ended", "unavailable"}]

TypeOK ==
    /\ kind \in Kinds
    /\ home \in [enabled : BOOLEAN, groups : Groups]
    /\ changes \in 0 .. MaxChanges
    /\ blocked \in BOOLEAN /\ shut \in BOOLEAN
    /\ sess \in [Session -> {NotYet, Gone} \cup Row]
    /\ login \in [Login -> {Resting} \cup Knowing]
    /\ admin \in [Admin -> {"rest", "block", "end", "unblock"}]
    /\ ask \in [Askers -> {Resting}
                  \cup [at : {"apply"}, answer : Answer, session : Session \cup {"all"}]
                  \cup [at : {"reload"}, answer : Answer, session : Session]]

There(s) == sess[s] \notin {NotYet, Gone}
Any      == \E s \in Session : There(s)

Init ==
    /\ kind \in Kinds
    /\ home = [enabled |-> TRUE, groups |-> 0]
    /\ changes = 0
    /\ blocked = FALSE /\ shut = FALSE
    /\ sess = [s \in Session |-> NotYet]
    /\ login = [l \in Login |-> Resting]
    /\ admin = [a \in Admin |-> "rest"]
    /\ ask = [k \in Askers |-> Resting]

-----------------------------------------------------------------------------
(* The account changes where it lives: external to this program.            *)
Change(enabled, groups) ==
    /\ kind = "directory"
    /\ changes < MaxChanges
    /\ groups \in {home.groups, changes + 1}
    /\ home # [enabled |-> enabled, groups |-> groups]
    /\ home' = [enabled |-> enabled, groups |-> groups]
    /\ changes' = changes + 1
    /\ UNCHANGED <<kind, blocks, sess, login, admin, ask>>

-----------------------------------------------------------------------------
(* Signing in.                                                              *)

(* directory.authenticate, kratos.whoami, break_glass::authenticate.        *)
Authenticate(l) ==
    /\ login[l] = Resting
    /\ home.enabled
    /\ login' = [login EXCEPT ![l] = [at |-> "known", groups |-> home.groups, client |-> "web"]]
    /\ UNCHANGED <<kind, home, changes, blocks, sess, admin, ask>>

(* extension::create_code: a code that holds the session's groups.          *)
CreateCode(l, s) ==
    /\ login[l] = Resting
    /\ There(s) /\ sess[s].client = "web" /\ ~blocked
    /\ login' = [login EXCEPT ![l] = [at |-> "known", groups |-> sess[s].groups,
                                      client |-> "extension"]]
    /\ UNCHANGED <<kind, home, changes, blocks, sess, admin, ask>>

(* Whoever looks at the block without the lock of the user's row.           *)
Unlocked(l) == kind = "break_glass" \/ login[l].client = "extension"

(* sign_in_break_glass looks at the block before its transaction begins,    *)
(* extension::token in its transaction, which locks nothing.                *)
LookAtBlock(l) ==
    /\ login[l] # Resting /\ login[l].at = "known" /\ Unlocked(l)
    /\ login' = [login EXCEPT ![l] = IF blocked THEN Resting ELSE [@ EXCEPT !.at = "unblocked"]]
    /\ UNCHANGED <<kind, home, changes, blocks, sess, admin, ask>>

(* Fault: no kind of account is looked at under the lock.                   *)
MayStartUnlocked(l) == login[l] # Resting

(* What the transaction still asks before it starts the session.            *)
MayStart(l) ==
    /\ login[l] # Resting
    /\ \/ login[l].at = "unblocked"
       \/ login[l].at = "known" /\ ~Unlocked(l) /\ ~blocked

(* Fault: a new session's checked_at is left out of the row.         *)
StartUnchecked(l, s) ==
    /\ MayStart(l)
    /\ sess[s] = NotYet
    /\ sess' = [sess EXCEPT ![s] = [groups |-> login[l].groups, client |-> login[l].client,
                                    late |-> FALSE]]
    /\ login' = [login EXCEPT ![l] = Resting]
    /\ UNCHANGED <<kind, home, changes, blocks, admin, ask>>

(* The transaction: the user's row, the session, the audit entry; for an    *)
(* extension session::create_extension.                                     *)
Start(l, s) ==
    /\ MayStart(l)
    /\ sess[s] = NotYet
    /\ sess' = [sess EXCEPT ![s] = [groups |-> login[l].groups, due |-> FALSE,
                                    client |-> login[l].client,
                                    late |-> blocked /\ login[l].at = "unblocked"]]
    /\ login' = [login EXCEPT ![l] = Resting]
    /\ UNCHANGED <<kind, home, changes, blocks, admin, ask>>

(* Refused: blocked, without the second factor, a code that ran out or does *)
(* not fit, or the browser went away.                                       *)
Refuse(l) ==
    /\ login[l] # Resting
    /\ login' = [login EXCEPT ![l] = Resting]
    /\ UNCHANGED <<kind, home, changes, blocks, sess, admin, ask>>

(* A session signs out, or runs out.                                        *)
Leave(s) ==
    /\ There(s)
    /\ sess' = [sess EXCEPT ![s] = Gone]
    /\ UNCHANGED <<kind, home, changes, blocks, login, admin, ask>>

-----------------------------------------------------------------------------
(* Administrators.                                                          *)

AllGone == [s \in Session |-> IF There(s) THEN Gone ELSE sess[s]]

(* users::block, first for a local account: Kratos turns it off.            *)
Block(a) ==
    /\ admin[a] = "rest"
    /\ home' = IF kind = "local" THEN [home EXCEPT !.enabled = FALSE] ELSE home
    /\ admin' = [admin EXCEPT ![a] = "block"]
    /\ UNCHANGED <<kind, changes, blocks, sess, login, ask>>

(* The update of users.blocked_at ...                                       *)
SetBlocked(a) ==
    /\ admin[a] = "block"
    /\ blocked' = TRUE
    /\ admin' = [admin EXCEPT ![a] = "end"]
    /\ UNCHANGED <<kind, home, changes, shut, sess, login, ask>>

(* ... and then the user's sessions; users::end does only this.             *)
EndSessions(a) ==
    /\ admin[a] \in {"end", "rest"}
    /\ admin[a] = "rest" => Any
    /\ sess' = AllGone
    /\ shut' = IF admin[a] = "end" THEN blocked ELSE shut
    /\ admin' = [admin EXCEPT ![a] = "rest"]
    /\ UNCHANGED <<kind, home, changes, blocked, login, ask>>

(* users::unblock.                                                          *)
Unblock(a) ==
    /\ admin[a] = "rest"
    /\ blocked
    /\ home' = IF kind = "local" THEN [home EXCEPT !.enabled = TRUE] ELSE home
    /\ admin' = [admin EXCEPT ![a] = "unblock"]
    /\ UNCHANGED <<kind, changes, blocks, sess, login, ask>>

ClearBlocked(a) ==
    /\ admin[a] = "unblock"
    /\ blocked' = FALSE /\ shut' = FALSE
    /\ admin' = [admin EXCEPT ![a] = "rest"]
    /\ UNCHANGED <<kind, home, changes, sess, login, ask>>

(* Kratos or the database fails: the request ends where it is.              *)
AdminFails(a) ==
    /\ admin[a] # "rest"
    /\ admin' = [admin EXCEPT ![a] = "rest"]
    /\ UNCHANGED <<kind, home, changes, blocks, sess, login, ask>>

-----------------------------------------------------------------------------
(* Asking the directory about the user again (refresh.rs).                  *)

(* directory.refresh: what it says of the account, or that it cannot be     *)
(* reached.  External to this program.                                      *)
Answers ==
    {[says |-> "unavailable"],
     IF home.enabled THEN [says |-> "groups", groups |-> home.groups] ELSE [says |-> "ended"]}

(* Five minutes passed since the session was checked.                       *)
Age(s) ==
    /\ There(s)
    /\ sess[s].due = FALSE
    /\ sess' = [sess EXCEPT ![s].due = TRUE]
    /\ UNCHANGED <<kind, home, changes, blocks, login, admin, ask>>

(* refresh::due, of refresh::run.                                           *)
AskDue(answer) ==
    /\ kind = "directory"
    /\ ask["due"] = Resting
    /\ \E s \in Session : There(s) /\ sess[s].due = TRUE
    /\ answer \in Answers
    /\ ask' = [ask EXCEPT !["due"] = [at |-> "apply", answer |-> answer, session |-> "all"]]
    /\ UNCHANGED <<kind, home, changes, blocks, sess, login, admin>>

(* before_connecting: the session was found, so its user is not blocked.    *)
AskFirst(k, s, answer) ==
    /\ kind = "directory"
    /\ ask[k] = Resting
    /\ There(s) /\ ~blocked
    /\ answer \in Answers
    /\ ask' = [ask EXCEPT ![k] = [at |-> "apply", answer |-> answer, session |-> s]]
    /\ UNCHANGED <<kind, home, changes, blocks, sess, login, admin>>

WithGroups(g) ==
    [s \in Session |-> IF There(s) THEN [sess[s] EXCEPT !.groups = g, !.due = FALSE] ELSE sess[s]]

(* Only the connection of an account that may stay goes on.                 *)
AfterAnswer(k, answer) ==
    IF k = "due" \/ answer.says = "ended" THEN Resting ELSE [ask[k] EXCEPT !.at = "reload"]

(* Fault: an account that is gone is taken for a directory that is.         *)
ApplyGroupsOnly(k) ==
    LET answer == ask[k].answer IN
    /\ ask[k].at = "apply"
    /\ sess' = IF answer.says = "groups" THEN WithGroups(answer.groups) ELSE sess
    /\ ask' = [ask EXCEPT ![k] = AfterAnswer(k, answer)]
    /\ UNCHANGED <<kind, home, changes, blocks, login, admin>>

(* refresh::user applies the answer to all of the user's sessions.          *)
Apply(k) ==
    LET answer == ask[k].answer IN
    /\ ask[k].at = "apply"
    /\ sess' = CASE answer.says = "groups"      -> WithGroups(answer.groups)
                 [] answer.says = "ended"       -> AllGone
                 [] answer.says = "unavailable" -> sess
    /\ ask' = [ask EXCEPT ![k] = AfterAnswer(k, answer)]
    /\ UNCHANGED <<kind, home, changes, blocks, login, admin>>

(* The session is read again, and the connection is authorized with it or   *)
(* refused.                                                                 *)
Reload(k) ==
    /\ ask[k].at = "reload"
    /\ ask' = [ask EXCEPT ![k] = Resting]
    /\ UNCHANGED <<kind, home, changes, blocks, sess, login, admin>>

-----------------------------------------------------------------------------
Next ==
    \/ \E enabled \in BOOLEAN, groups \in Groups : Change(enabled, groups)
    \/ \E l \in Login : Authenticate(l) \/ LookAtBlock(l) \/ Refuse(l)
                          \/ \E s \in Session : CreateCode(l, s) \/ Start(l, s)
    \/ \E s \in Session : Leave(s) \/ Age(s)
    \/ \E a \in Admin : \/ Block(a) \/ SetBlocked(a) \/ EndSessions(a)
                        \/ Unblock(a) \/ ClearBlocked(a) \/ AdminFails(a)
    \/ \E answer \in Answer :
         AskDue(answer) \/ \E k \in Asker, s \in Session : AskFirst(k, s, answer)
    \/ \E k \in Askers : Apply(k)
    \/ \E k \in Asker : Reload(k)

Spec == Init /\ [][Next]_vars

Heard == \E answer \in Answers : answer.says # "unavailable" /\ AskDue(answer)

(* Time passes, refresh::run keeps running, what was begun comes to an end, *)
(* and the directory is not out of reach at every round.                    *)
Fairness ==
    /\ \A s \in Session : WF_vars(Age(s))
    /\ SF_vars(Heard)
    /\ \A k \in Askers : WF_vars(Apply(k))
    /\ \A l \in Login : WF_vars(Refuse(l))

FairSpec == Spec /\ Fairness

-----------------------------------------------------------------------------
(* Properties.                                                              *)

(* Blocking "ends their sessions at once": when a block was carried out,    *)
(* no session of the user is there until it is lifted, whatever sign-ins    *)
(* were under way, so none comes back to life with the unblocking; but for  *)
(* those of a break-glass sign-in or of an extension that found the user    *)
(* unblocked before and began after.                                        *)
BlockEndsSessions ==
    shut => \A s \in Session : There(s) =>
              sess[s].late /\ (kind = "break_glass" \/ sess[s].client = "extension")

(* What the model checker checks of block_user and sign_in in one go.      *)
BlockHolds == TypeOK /\ BlockEndsSessions

(* "Directory changes reach running sessions": when the directory has       *)
(* changed for the last time, all sessions of the user come to have its     *)
(* groups and keep them, or end if the account may no longer sign in, even  *)
(* though answers are applied late and in another order than they were      *)
(* given.                                                                   *)
DirectoryPrevails ==
    kind = "directory" =>
        <>[](\A s \in Session : There(s) => home.enabled /\ sess[s].groups = home.groups)
=============================================================================
