-------------------------- MODULE DirectorySettings --------------------------
(***************************************************************************)
(* The directory connection: directory.rs and api/directory.rs.  It is in  *)
(* three places: the one row of the table, its password sealed beside it,  *)
(* and the directory in use, which sign-ins take from memory.              *)
(*                                                                         *)
(* A save asks the directory before its transaction and replaces the one   *)
(* in use after it.  The row's lock makes the transaction one step; the    *)
(* first save of all finds no row to lock and takes two.                   *)
(***************************************************************************)
EXTENDS Naturals

CONSTANTS
    Place,          \* what URL and base DN lead to
    Rest,           \* values of the other fields
    Password,
    Slot,           \* requests of administrators under way at once
    Login,          \* sign-ins under way at once
    MaxId,          \* bound: rows that are ever made
    MaxVersion,     \* bound: versions of the password
    None

VARIABLES
    row,            \* the table directory: None or [id, conn, ver]
    sealed,         \* secret_fields: <<id, version, password>>
    current,        \* Current: None or [conn, pw]
    slot,           \* saves and removals under way
    login,          \* [Login -> None or the place asked]
    sessions,       \* directory users' sessions: [place, late]
    made,           \* ids given out
    checked,        \* history: <<connection, password>> the directory took
    crossed,        \* history: two first saves overlapped
    broken          \* history: a handler was dropped while it committed

settingsVars == <<row, sealed, current, slot, login, sessions, made, checked, crossed, broken>>

Conn == [place : Place, rest : Rest]

Init ==
    /\ row = None /\ sealed = {} /\ current = None
    /\ slot = [s \in Slot |-> None] /\ login = [l \in Login |-> None]
    /\ sessions = {} /\ made = 0 /\ checked = {}
    /\ crossed = FALSE /\ broken = FALSE

At(s, at) == slot[s] # None /\ slot[s].at = at
Goes(s, at) == slot' = [slot EXCEPT ![s].at = at]
Frees(s) == slot' = [slot EXCEPT ![s] = None]

Sealed(id, ver) == {x \in sealed : x[1] = id /\ x[2] = ver}

PasswordIn(found) == (CHOOSE x \in found : TRUE)[3]

(* open: the stored connection with its password.                           *)
Opened ==
    IF row = None \/ Sealed(row.id, row.ver) = {} THEN None
    ELSE [conn |-> row.conn, pw |-> PasswordIn(Sealed(row.id, row.ver))]
-----------------------------------------------------------------------------
(* save, up to its transaction.                                             *)

Asks(conn, new, pw, id, ver, at) ==
    [at |-> at, conn |-> conn, new |-> new, pw |-> pw, id |-> id, ver |-> ver]

(* password_for: the new one, or the stored row's, in a second statement;   *)
(* without either the request is refused.                                   *)
Save(s, conn, new) ==
    /\ slot[s] = None
    /\ \/ new # None /\ slot' = [slot EXCEPT ![s] = Asks(conn, new, new, 0, 0, "check")]
       \/ /\ new = None /\ row # None
          /\ slot' = [slot EXCEPT ![s] = Asks(conn, None, None, row.id, row.ver, "load")]
    /\ UNCHANGED <<row, sealed, current, login, sessions, made, checked, crossed, broken>>

(* sealed_password: NoPassword if that version went meanwhile.              *)
LoadPassword(s) ==
    /\ At(s, "load")
    /\ LET found == Sealed(slot[s].id, slot[s].ver) IN
         IF found = {} THEN Frees(s)
         ELSE slot' = [slot EXCEPT ![s].pw = PasswordIn(found), ![s].at = "check"]
    /\ UNCHANGED <<row, sealed, current, login, sessions, made, checked, crossed, broken>>

(* Fault: what failed the check goes on.                                    *)
CheckAll(s) ==
    /\ At(s, "check")
    /\ Goes(s, "begin")
    /\ checked' \in {checked, checked \cup {<<slot[s].conn, slot[s].pw>>}}
    /\ UNCHANGED <<row, sealed, current, login, sessions, made, crossed, broken>>

(* run_check: "checks, then stores what passed".                            *)
Check(s) ==
    /\ At(s, "check")
    /\ \/ Frees(s) /\ UNCHANGED checked
       \/ Goes(s, "begin") /\ checked' = checked \cup {<<slot[s].conn, slot[s].pw>>}
    /\ UNCHANGED <<row, sealed, current, login, sessions, made, crossed, broken>>
-----------------------------------------------------------------------------
(* Its transaction.                                                         *)

(* Fault: another field is compared.                                        *)
MovedNever(before, conn) == before.rest # conn.rest

(* A new URL or base DN.                                                    *)
Moved(before, conn) == before.place # conn.place

(* Fault: the versions before stay.                                         *)
SealOver(id, ver, pw) == sealed \cup {<<id, ver, pw>>}

(* A new version, and the older ones go.                                    *)
Seal(id, ver, pw) == {x \in sealed : x[1] # id \/ x[2] >= ver} \cup {<<id, ver, pw>>}

(* directory::save with the row locked.  The key of secret_fields refuses a *)
(* version that is there.                                                   *)
Replace(s) ==
    LET new == slot[s].new
        ver == IF new = None THEN row.ver ELSE row.ver + 1
    IN  /\ At(s, "begin") /\ row # None
        /\ ver <= MaxVersion
        /\ IF new # None /\ Sealed(row.id, ver) # {}
           THEN Frees(s) /\ UNCHANGED <<row, sealed, sessions>>
           ELSE /\ row' = [row EXCEPT !.conn = slot[s].conn, !.ver = ver]
                /\ sealed' = IF new = None THEN sealed ELSE Seal(row.id, ver, new)
                /\ sessions' = IF Moved(row.conn, slot[s].conn) THEN {} ELSE sessions
                /\ Goes(s, "set")
        /\ UNCHANGED <<current, login, made, checked, crossed, broken>>

(* No row: a password is needed, and the row has an id of its own.          *)
FindNone(s) ==
    /\ At(s, "begin") /\ row = None
    /\ IF slot[s].new = None THEN Frees(s) /\ UNCHANGED made
       ELSE /\ made < MaxId /\ made' = made + 1
            /\ slot' = [slot EXCEPT ![s].id = made + 1, ![s].at = "insert"]
    /\ UNCHANGED <<row, sealed, current, login, sessions, checked, crossed, broken>>

(* INSERT ... ON CONFLICT (singleton) DO UPDATE: the id is not updated.     *)
Insert(s) ==
    /\ At(s, "insert")
    /\ row' = [id   |-> IF row = None THEN slot[s].id ELSE row.id,
               conn |-> slot[s].conn, ver |-> 1]
    /\ sealed' = Seal(slot[s].id, 1, slot[s].new)
    /\ crossed' = (crossed \/ row # None)
    /\ Goes(s, "set")
    /\ UNCHANGED <<current, login, sessions, made, checked, broken>>
-----------------------------------------------------------------------------
(* state.directory.set, once the commit returned.                           *)
Set(s) ==
    /\ At(s, "set")
    /\ current' = [conn |-> slot[s].conn, pw |-> slot[s].pw]
    /\ broken' = FALSE
    /\ Frees(s)
    /\ UNCHANGED <<row, sealed, login, sessions, made, checked, crossed>>

(* Fault: the directory users' sessions stay.                               *)
RemoveOnly(s) ==
    /\ slot[s] = None /\ row # None
    /\ row' = None /\ sealed' = {x \in sealed : x[1] # row.id}
    /\ slot' = [slot EXCEPT ![s] = Asks(None, None, None, 0, 0, "unset")]
    /\ UNCHANGED <<current, login, sessions, made, checked, crossed, broken>>

(* remove: the row, its passwords and every directory user's session.       *)
Remove(s) ==
    /\ slot[s] = None /\ row # None
    /\ row' = None /\ sealed' = {x \in sealed : x[1] # row.id}
    /\ sessions' = {}
    /\ slot' = [slot EXCEPT ![s] = Asks(None, None, None, 0, 0, "unset")]
    /\ UNCHANGED <<current, login, made, checked, crossed, broken>>

(* Fault: the directory stays in use.                                       *)
UnsetNot(s) ==
    /\ At(s, "unset") /\ Frees(s)
    /\ UNCHANGED <<row, sealed, current, login, sessions, made, checked, crossed, broken>>

Unset(s) ==
    /\ At(s, "unset")
    /\ current' = None /\ broken' = FALSE
    /\ Frees(s)
    /\ UNCHANGED <<row, sealed, login, sessions, made, checked, crossed>>

(* The database fails, or the administrator's browser goes away and the     *)
(* handler is dropped: a transaction that has not committed is rolled back, *)
(* and of one that was committing nobody hears.                             *)
Drop(s) ==
    /\ slot[s] # None /\ Frees(s)
    /\ broken' = (broken \/ slot[s].at \in {"set", "unset"})
    /\ UNCHANGED <<row, sealed, current, login, sessions, made, checked, crossed>>

(* main: the directory as stored, or none if it cannot be opened.           *)
Restart ==
    /\ current' = Opened
    /\ slot' = [s \in Slot |-> None] /\ login' = [l \in Login |-> None]
    /\ broken' = FALSE
    /\ UNCHANGED <<row, sealed, sessions, made, checked, crossed>>
-----------------------------------------------------------------------------
(* sign_in: the directory in use is taken, asked, and the session started.  *)
Ask(l) ==
    /\ login[l] = None /\ current # None
    /\ login' = [login EXCEPT ![l] = current.conn.place]
    /\ UNCHANGED <<row, sealed, current, slot, sessions, made, checked, crossed, broken>>

Answered(l, right) ==
    /\ login[l] # None
    /\ login' = [login EXCEPT ![l] = None]
    /\ sessions' = IF ~right THEN sessions
                   ELSE sessions \cup {[place |-> login[l],
                                        late |-> row = None \/ row.conn.place # login[l]]}
    /\ UNCHANGED <<row, sealed, current, slot, made, checked, crossed, broken>>

Next ==
    \/ \E s \in Slot :
          \/ \E conn \in Conn, new \in Password \cup {None} : Save(s, conn, new)
          \/ LoadPassword(s) \/ Check(s) \/ Replace(s) \/ FindNone(s) \/ Insert(s) \/ Set(s)
          \/ Remove(s) \/ Unset(s) \/ Drop(s)
    \/ \E l \in Login : Ask(l) \/ \E right \in BOOLEAN : Answered(l, right)
    \/ Restart
-----------------------------------------------------------------------------
TypeOK ==
    /\ row \in {None} \cup [id : 1 .. MaxId, conn : Conn, ver : 1 .. MaxVersion]
    /\ sealed \subseteq (1 .. MaxId) \X (1 .. MaxVersion) \X Password
    /\ current \in {None} \cup [conn : Conn, pw : Password]
    /\ sessions \subseteq [place : Place, late : BOOLEAN]
    /\ made \in 0 .. MaxId

(* One administrator at a time: what sign-ins use is what is stored, with   *)
(* the stored password, whatever failed or was dropped before; and that     *)
(* pair is one the directory took ("checks, then stores what passed").      *)
StoredIsInUse ==
    /\ (\A s \in Slot : slot[s] = None) /\ ~broken => current = Opened
    /\ Opened # None => <<Opened.conn, Opened.pw>> \in checked

(* The row's password is there and no other is left, unless two first saves *)
(* overlapped.                                                              *)
OnlyItsPassword ==
    ~crossed => IF row = None THEN sealed = {}
                ELSE /\ Sealed(row.id, row.ver) = sealed
                     /\ \E pw \in Password : sealed = {<<row.id, row.ver, pw>>}

(* "A new URL or base DN ends every directory user's session": every one    *)
(* there is belongs to the stored directory, or its sign-in took the one    *)
(* before while that was replaced.                                          *)
SessionsOfTheDirectory ==
    ~crossed => \A x \in sessions : x.late \/ (row # None /\ row.conn.place = x.place)
=============================================================================
