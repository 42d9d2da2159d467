----------------------------- MODULE BreakGlass -----------------------------
(***************************************************************************)
(* A break-glass account: crates/server/src/break_glass.rs, the commands   *)
(* of the CLI that create, reset and delete it, its sign-in (api/          *)
(* session.rs) and the confirmation by a code alone.                       *)
(*                                                                         *)
(* A reset gives a new password and a new secret together, so the version  *)
(* of the secret stands for both.  The account's row is read without a     *)
(* transaction; the password is checked against that row, and the code     *)
(* against the secret of that version, by a statement of its own that also *)
(* moves the last used step on.  The CLI is another process and may come   *)
(* between any two of these.                                               *)
(***************************************************************************)
EXTENDS Integers

CONSTANTS
    Slot,       \* requests that can be under way at once
    MaxTime,    \* bound: the last step of the clock
    MaxId,      \* bound: accounts ever created under the name
    MaxVersion, \* bound: passwords an account is ever given
    None

VARIABLES
    now,
    account,    \* local_accounts: [id, version, last], or None
    created,    \* how many accounts the name has had
    secrets,    \* secret_fields: [id, version]
    slot,       \* requests under way
    sessions,   \* [id, version, late]: what they were opened with
    taken       \* history: how often each code was accepted

breakGlassVars == <<now, account, created, secrets, slot, sessions, taken>>

Owner == [id : 1..MaxId, version : 1..MaxVersion]

Codes == [id : 1..MaxId, version : 1..MaxVersion, step : 0..(MaxTime + 1)]

\* A request has read the account's row, and perhaps had its code accepted;
\* it is late once the CLI has changed the account since.
Request == [at : {"read", "accepted"}, way : {"sign_in", "confirm"},
            id : 1..MaxId, version : 1..MaxVersion, late : BOOLEAN]

\* What the constants must be.
ConstantsOK ==
    /\ MaxTime \in Nat \ {0} /\ MaxId \in Nat /\ MaxVersion \in Nat \ {0}
    /\ None \notin Request
    /\ None \notin [id : 1..MaxId, version : 1..MaxVersion, last : 0..(MaxTime + 1)]

Init ==
    /\ now = 1
    /\ account = None
    /\ created = 0
    /\ secrets = {}
    /\ slot = [s \in Slot |-> None]
    /\ sessions = {}
    /\ taken = [c \in Codes |-> 0]

Late == [s \in Slot |-> IF slot[s] = None THEN None ELSE [slot[s] EXCEPT !.late = TRUE]]
-----------------------------------------------------------------------------
(* remotehub break-glass create, reset, delete *)

Create ==
    /\ account = None
    /\ created < MaxId
    /\ created' = created + 1
    /\ account' = [id |-> created', version |-> 1, last |-> 0]
    /\ secrets' = secrets \cup {[id |-> created', version |-> 1]}
    /\ UNCHANGED <<now, slot, sessions, taken>>

\* A fault: the sessions go on.
ResetKeepsSessions ==
    /\ account # None
    /\ account.version < MaxVersion
    /\ account' = [account EXCEPT !.version = @ + 1, !.last = 0]
    /\ secrets' = secrets \cup {[id |-> account.id, version |-> account.version + 1]}
    /\ slot' = Late
    /\ UNCHANGED <<now, created, sessions, taken>>

Reset ==
    /\ account # None
    /\ account.version < MaxVersion
    /\ account' = [account EXCEPT !.version = @ + 1, !.last = 0]
    /\ secrets' = secrets \cup {[id |-> account.id, version |-> account.version + 1]}
    /\ sessions' = {x \in sessions : x.id # account.id}
    /\ slot' = Late
    /\ UNCHANGED <<now, created, taken>>

Delete ==
    /\ account # None
    /\ secrets' = {x \in secrets : x.id # account.id}
    /\ sessions' = {x \in sessions : x.id # account.id}
    /\ account' = None
    /\ slot' = Late
    /\ UNCHANGED <<now, created, taken>>
-----------------------------------------------------------------------------
(* Signing in and confirming *)

\* authenticate_at and verify_code read the row; a wrong password or no
\* account ends a sign-in here.
ReadAccount(s, way) ==
    /\ slot[s] = None
    /\ account # None
    /\ way = "confirm" => \E x \in sessions : x.id = account.id
    /\ slot' = [slot EXCEPT ![s] = [at |-> "read", way |-> way, id |-> account.id,
                                    version |-> account.version, late |-> FALSE]]
    /\ UNCHANGED <<now, account, created, secrets, sessions, taken>>

\* A fault: the step is stored without being compared.
MovesOnAlways(id, step) ==
    /\ account # None
    /\ account.id = id
    /\ account' = [account EXCEPT !.last = step]

\* One statement: UPDATE ... WHERE user_id = $1 AND last_totp_step < $2.
MovesOn(id, step) ==
    /\ account # None
    /\ account.id = id
    /\ account.last < step
    /\ account' = [account EXCEPT !.last = step]

\* code_matches: the code is one of the secret whose version was read.
Accept(s, step) ==
    /\ slot[s] # None
    /\ slot[s].at = "read"
    /\ [id |-> slot[s].id, version |-> slot[s].version] \in secrets
    /\ step \in (now - 1)..(now + 1)
    /\ MovesOn(slot[s].id, step)
    /\ taken' = [taken EXCEPT ![[id |-> slot[s].id, version |-> slot[s].version,
                                 step |-> step]] = IF @ = 2 THEN 2 ELSE @ + 1]
    /\ slot' = [slot EXCEPT ![s] = IF @.way = "confirm" THEN None
                                   ELSE [@ EXCEPT !.at = "accepted"]]
    /\ UNCHANGED <<now, created, secrets, sessions>>

\* A wrong or a used code, or a secret that is gone; a blocked user; a
\* client that went away.
Fail(s) ==
    /\ slot[s] # None
    /\ slot' = [slot EXCEPT ![s] = None]
    /\ UNCHANGED <<now, account, created, secrets, sessions, taken>>

\* sign_in_break_glass: the session, in a transaction of its own.
Open(s) ==
    /\ slot[s] # None
    /\ slot[s].at = "accepted"
    /\ sessions' = sessions \cup {[id |-> slot[s].id, version |-> slot[s].version,
                                   late |-> slot[s].late]}
    /\ slot' = [slot EXCEPT ![s] = None]
    /\ UNCHANGED <<now, account, created, secrets, taken>>

Tick ==
    /\ now < MaxTime
    /\ now' = now + 1
    /\ UNCHANGED <<account, created, secrets, slot, sessions, taken>>

Next ==
    \/ Create \/ Reset \/ Delete \/ Tick
    \/ \E s \in Slot :
          \/ \E way \in {"sign_in", "confirm"} : ReadAccount(s, way)
          \/ \E step \in 0..(MaxTime + 1) : Accept(s, step)
          \/ Fail(s)
          \/ Open(s)

Spec == Init /\ [][Next]_breakGlassVars
-----------------------------------------------------------------------------
TypeOK ==
    /\ now \in 1..MaxTime
    /\ account \in {None} \cup [id : 1..MaxId, version : 1..MaxVersion, last : 0..(MaxTime + 1)]
    /\ created \in 0..MaxId
    /\ secrets \subseteq Owner
    /\ slot \in [Slot -> {None} \cup Request]
    /\ sessions \subseteq [id : 1..MaxId, version : 1..MaxVersion, late : BOOLEAN]
    /\ taken \in [Codes -> 0..2]

\* Each code of the account's present secret is accepted once, whether it
\* came with two sign-ins at once or with a sign-in and a confirmation.
PresentCodeOnce ==
    account # None =>
        \A c \in Codes : (c.id = account.id /\ c.version = account.version) => taken[c] <= 1

\* A session is one of the account's present password: a reset or a deletion
\* ended the others.  Only a sign-in that was under way during one may have
\* opened its session after it.
ChangedEndsSessions ==
    \A x \in sessions :
        \/ x.late
        \/ account # None /\ x.id = account.id /\ x.version = account.version
=============================================================================
